---- MODULE Spec2Model ----
(***************************************************************************)
(* tf-iamgen: the resource-to-permission mapping database, the lookup      *)
(* service with its cache, and the policy generator, as a state machine.   *)
(*                                                                         *)
(* Resource types, attribute names and IAM actions are strings, as in the  *)
(* Go source: cache keys are built by concatenation, services are found by *)
(* splitting at ':' and lists are ordered bytewise (sort.Strings).         *)
(***************************************************************************)
EXTENDS Integers, Sequences, FiniteSets, TLC

VARIABLES
    mappings,   \* MappingDatabase.mappings: resource type -> ResourceActionMap
    loaded,     \* MappingDatabase.loaded
    cache,      \* MappingService.cache: cache key -> ActionSet
    ret,        \* the call the client made last and what it returned
    resolved,   \* GetResourceActions results seen by the client (SpecCache only)
    procs,      \* goroutine -> the call it is in, its position and its locals
    dbmu,       \* MappingDatabase.mu: the goroutine holding the write lock
    policyBuilder, \* the PolicyBuilder a client builds a policy with
    built       \* what PolicyBuilder.Build returned to the client (SpecBuilder only)

vars == <<mappings, loaded, cache, ret, resolved, procs, dbmu, policyBuilder, built>>

(***************************************************************************)
(* Bounds.                                                                 *)
(***************************************************************************)
\* Longest resource list (and largest resource map) handed to a batch call.
MaxResources == 2

(***************************************************************************)
(* Strings.                                                                *)
(***************************************************************************)
\* The characters that occur in the model's strings, in ascending byte order.
Alphabet == "*,-./0123456789:ABCDEFGHIJKLMNOPQRSTUVWXYZ_abcdefghijklmnopqrstuvwxyz"

UpperChars == "ABCDEFGHIJKLMNOPQRSTUVWXYZ"

LowerChars == "abcdefghijklmnopqrstuvwxyz"

DigitChars == "0123456789"

CharAt(s, i) == SubSeq(s, i, i)

RECURSIVE IndexFrom(_, _, _)
IndexFrom(s, c, i) ==
    IF i > Len(s) THEN 0
    ELSE IF CharAt(s, i) = c THEN i
    ELSE IndexFrom(s, c, i + 1)

\* Index of the first occurrence of character c in s, 0 when there is none.
IndexOf(s, c) == IndexFrom(s, c, 1)

\* Rank of every character in byte order.
ByteRank ==
    [c \in {CharAt(Alphabet, i) : i \in 1..Len(Alphabet)} |-> IndexOf(Alphabet, c)]

Ord(c) == ByteRank[c]

RECURSIVE StrLessFrom(_, _, _)
StrLessFrom(a, b, i) ==
    IF i > Len(a) THEN i <= Len(b)
    ELSE IF i > Len(b) THEN FALSE
    ELSE IF CharAt(a, i) = CharAt(b, i) THEN StrLessFrom(a, b, i + 1)
    ELSE Ord(CharAt(a, i)) < Ord(CharAt(b, i))

\* a < b as Go compares strings: bytewise, a proper prefix first.
StrLess(a, b) == StrLessFrom(a, b, 1)

RECURSIVE InsertSorted(_, _)
InsertSorted(s, seq) ==
    IF seq = <<>> THEN <<s>>
    ELSE IF StrLess(Head(seq), s) THEN <<Head(seq)>> \o InsertSorted(s, Tail(seq))
    ELSE <<s>> \o seq

RECURSIVE SortStrings(_)
\* sort.Strings: the same strings (duplicates kept) in ascending order.
SortStrings(seq) ==
    IF seq = <<>> THEN <<>>
    ELSE InsertSorted(Head(seq), SortStrings(Tail(seq)))

\* strings.Split(s, ":")[0]: the text before the first ':', all of s when
\* there is none (Split never returns an empty slice for a non-empty separator).
SplitFirst(s) ==
    IF IndexOf(s, ":") = 0 THEN s ELSE SubSeq(s, 1, IndexOf(s, ":") - 1)

RECURSIVE JoinStrings(_, _)
\* strings.Join(seq, sep)
JoinStrings(seq, sep) ==
    IF seq = <<>> THEN ""
    ELSE IF Len(seq) = 1 THEN seq[1]
    ELSE seq[1] \o sep \o JoinStrings(Tail(seq), sep)

\* unicode.ToTitle on one ASCII character.
ToTitleChar(c) ==
    IF IndexOf(LowerChars, c) = 0 THEN c
    ELSE CharAt(UpperChars, IndexOf(LowerChars, c))

\* strings.isSeparator: ASCII letters, digits and '_' do not separate words.
IsSeparator(c) ==
    /\ IndexOf(LowerChars, c) = 0
    /\ IndexOf(UpperChars, c) = 0
    /\ IndexOf(DigitChars, c) = 0
    /\ c # "_"

RECURSIVE TitleFrom(_, _)
TitleFrom(s, i) ==
    IF i > Len(s) THEN ""
    ELSE (IF i = 1 \/ IsSeparator(CharAt(s, i - 1))
          THEN ToTitleChar(CharAt(s, i))
          ELSE CharAt(s, i)) \o TitleFrom(s, i + 1)

\* strings.Title: the first letter of every word in title case.
Title(s) == TitleFrom(s, 1)

\* Every ordering of the elements of finite set S (a Go map is ranged over in
\* an unspecified order).
Orderings(S) ==
    {o \in [1..Cardinality(S) -> S] : \A e \in S : \E i \in DOMAIN o : o[i] = e}

\* The elements of a sequence.
Range(seq) == {seq[i] : i \in DOMAIN seq}

EmptyMap == <<>>

(***************************************************************************)
(* The mapping database (internal/mapping/loader.go).                      *)
(*                                                                         *)
(* A decoded YAML value is a record tagged by kind: "null", "str", "int"   *)
(* (any scalar that is not a string), "list" (items) or "map" (fields).    *)
(***************************************************************************)
YNull == [kind |-> "null"]

YInt == [kind |-> "int"]

YStr(s) == [kind |-> "str", str |-> s]

YList(items) == [kind |-> "list", items |-> items]

YMap(fields) == [kind |-> "map", fields |-> fields]

\* A YAML list of action strings.
YActions(seq) == YList([i \in DOMAIN seq |-> YStr(seq[i])])

\* parseActionList: a list keeps its string items, a string is one action,
\* anything else is an error.
parseActionList(data) ==
    IF data.kind = "list"
    THEN [err |-> FALSE,
          actions |-> {data.items[i].str :
                          i \in {j \in DOMAIN data.items : data.items[j].kind = "str"}}]
    ELSE IF data.kind = "str"
    THEN [err |-> FALSE, actions |-> {data.str}]
    ELSE [err |-> TRUE, actions |-> {}]

\* The string field `name` of a decoded map, "" when absent or not a string.
StringField(fields, name) ==
    IF name \in DOMAIN fields /\ fields[name].kind = "str"
    THEN fields[name].str
    ELSE ""

\* The entries of field `name` when it is present and a map, none otherwise.
MapField(fields, name) ==
    IF name \in DOMAIN fields /\ fields[name].kind = "map"
    THEN fields[name].fields
    ELSE EmptyMap

\* parseMappingData: the ResourceActionMap of one decoded mapping record.
parseMappingData(fields) ==
    LET acts == MapField(fields, "actions")
        attrs == MapField(fields, "attribute_actions")
    IN  IF \/ \E n \in DOMAIN acts : parseActionList(acts[n]).err
           \/ \E a \in DOMAIN attrs : parseActionList(attrs[a]).err
        THEN [err |-> TRUE]
        ELSE [err |-> FALSE,
              mapping |->
                [Service |-> StringField(fields, "service"),
                 Description |-> StringField(fields, "description"),
                 Actions |-> [n \in DOMAIN acts |-> parseActionList(acts[n]).actions],
                 AttributeActions |->
                    [a \in DOMAIN attrs |->
                        [k \in {"_default"} |-> parseActionList(attrs[a]).actions]]]]

\* Variant of the map assignment that keeps the value a key already has.
MapSetIfAbsent(m, k, v) ==
    [x \in (DOMAIN m) \cup {k} |-> IF x \in DOMAIN m THEN m[x] ELSE v]

\* m with key k set to v (a Go map assignment).
MapSet(m, k, v) == [x \in (DOMAIN m) \cup {k} |-> IF x = k THEN v ELSE m[x]]

RECURSIVE loadRecords(_, _, _)
\* The loop of loadMappingFile over the file's records in iteration order
\* `order`: null and non-map records are passed over, a record that does not
\* parse ends the loop with an error, the records before it already stored.
loadRecords(m, data, order) ==
    IF order = <<>> THEN [err |-> FALSE, mappings |-> m]
    ELSE LET rt == Head(order)
             rec == data[rt]
         IN  IF rec.kind # "map" THEN loadRecords(m, data, Tail(order))
             ELSE IF parseMappingData(rec.fields).err
             THEN [err |-> TRUE, mappings |-> m]
             ELSE loadRecords(MapSet(m, rt, parseMappingData(rec.fields).mapping),
                              data, Tail(order))

\* loadMappingFile: a file is [readable, decodes, data]; data is the decoded
\* top-level map, resource type -> record.
loadMappingFile(m, file, order) ==
    IF ~file.readable \/ ~file.decodes
    THEN [err |-> TRUE, mappings |-> m]
    ELSE loadRecords(m, file.data, order)

RECURSIVE loadFiles(_, _, _)
\* The loop of LoadMappings over the files found, orders[i] being the order
\* in which file i's records are ranged over.
loadFiles(m, files, orders) ==
    IF files = <<>> THEN [err |-> FALSE, mappings |-> m]
    ELSE LET r == loadMappingFile(m, Head(files), Head(orders))
         IN  IF r.err THEN r
             ELSE loadFiles(r.mappings, Tail(files), Tail(orders))

\* LoadMappings on directory dir = [exists, files] (files: the *.yaml then the
\* *.yml files as Glob lists them). db is [mappings, loaded].
LoadMappings(db, dir, orders) ==
    IF ~dir.exists THEN [err |-> TRUE, mappings |-> db.mappings, loaded |-> db.loaded]
    ELSE IF Len(dir.files) = 0
    THEN [err |-> TRUE, mappings |-> db.mappings, loaded |-> db.loaded]
    ELSE LET r == loadFiles(db.mappings, dir.files, orders)
         IN  IF r.err
             THEN [err |-> TRUE, mappings |-> r.mappings, loaded |-> db.loaded]
             ELSE [err |-> FALSE, mappings |-> r.mappings, loaded |-> TRUE]

\* GetMapping
GetMapping(m, resourceType) ==
    IF resourceType \in DOMAIN m
    THEN [mapping |-> m[resourceType], exists |-> TRUE]
    ELSE [exists |-> FALSE]

\* HasMapping
HasMapping(m, resourceType) == resourceType \in DOMAIN m

\* NewMappingDatabase
NewMappingDatabase == [mappings |-> EmptyMap, loaded |-> FALSE]

(***************************************************************************)
(* Mapping directories the model loads.                                    *)
(***************************************************************************)
\* fn has two base action lists and an attribute-triggered one; "fn:log" is
\* a resource type of its own whose name contains the key separator.
FileMain ==
    [readable |-> TRUE, decodes |-> TRUE,
     data |->
        ("fn" :> YMap([service |-> YStr("s3"),
                       actions |-> YMap([create |-> YActions(<<"s3:Put", "ec2:Run">>),
                                         read |-> YActions(<<"s3:Get">>)]),
                       attribute_actions |-> YMap([log |-> YActions(<<"logs:Put">>)])]))
        @@ ("fn:log" :> YMap([service |-> YStr("iam"),
                              actions |-> YMap([create |-> YStr("iam:Pass")])]))
        @@ ("vm" :> YMap([service |-> YStr("ec2"),
                          actions |-> YMap([create |-> YActions(<<"ec2:Run">>)])]))]

\* A record whose action list is a number.
FileBad ==
    [readable |-> TRUE, decodes |-> TRUE,
     data |-> ("bad" :> YMap([actions |-> YMap([create |-> YInt])]))]

Dirs ==
    [main |-> [exists |-> TRUE, files |-> <<FileMain>>],
     bad |-> [exists |-> TRUE, files |-> <<FileBad>>],
     empty |-> [exists |-> TRUE, files |-> <<>>],
     missing |-> [exists |-> FALSE, files |-> <<>>]]

\* One iteration order per file of directory dir.
FileOrders(dir) ==
    {os \in [DOMAIN dir.files -> UNION {Orderings(DOMAIN dir.files[i].data) : i \in DOMAIN dir.files}] :
        \A i \in DOMAIN dir.files : os[i] \in Orderings(DOMAIN dir.files[i].data)}


(***************************************************************************)
(* The lookup service (internal/mapping/service.go).                       *)
(*                                                                         *)
(* An ActionSet (map[string]bool whose values are all true) is a set of    *)
(* strings. An attribute map is a function from attribute names to values; *)
(* a nil map and an empty map behave alike in every path and are both the  *)
(* empty function.                                                         *)
(***************************************************************************)
\* The keys of a map, sorted (appended in iteration order, then sort.Strings).
SortedKeys(S) == SortStrings(CHOOSE o \in Orderings(S) : TRUE)

\* buildCacheKey
buildCacheKey(resourceType, attributes) ==
    IF Cardinality(DOMAIN attributes) = 0
    THEN resourceType
    ELSE resourceType \o ":" \o JoinStrings(SortedKeys(DOMAIN attributes), ",")

\* The union of the action sets of a label -> ActionSet map.
UnionOfSets(byLabel) == UNION {byLabel[l] : l \in DOMAIN byLabel}

\* The cache-miss computation of GetResourceActions: every base action set,
\* and for every attribute name present the sets the mapping ties to it.
ComputeActions(mapping, attributes) ==
    UnionOfSets(mapping.Actions)
    \cup (IF Cardinality(DOMAIN mapping.AttributeActions) > 0
          THEN UNION {UnionOfSets(mapping.AttributeActions[a]) :
                         a \in (DOMAIN attributes) \cap (DOMAIN mapping.AttributeActions)}
          ELSE {})

\* A small count as fmt prints it with %d.
Itoa(n) == CharAt(DigitChars, n + 1)

\* Variant of GetResourceActions that stores in the cache the base actions
\* only, before the attribute-triggered ones are added.
GetResourceActionsCachingBase(m, c, resourceType, attributes) ==
    IF ~HasMapping(m, resourceType)
    THEN [err |-> TRUE, cache |-> c]
    ELSE LET cacheKey == buildCacheKey(resourceType, attributes)
             mapping == GetMapping(m, resourceType).mapping
         IN  IF cacheKey \in DOMAIN c
             THEN [err |-> FALSE,
                   out |-> [ResourceType |-> resourceType,
                            Service |-> mapping.Service,
                            Actions |-> c[cacheKey],
                            Reason |-> "Retrieved from cache"],
                   cache |-> c]
             ELSE [err |-> FALSE,
                   out |-> [ResourceType |-> resourceType,
                            Service |-> mapping.Service,
                            Actions |-> ComputeActions(mapping, attributes),
                            Reason |-> "Mapped from resource type " \o resourceType
                                       \o " with "
                                       \o Itoa(Cardinality(DOMAIN attributes))
                                       \o " attributes"],
                   cache |-> MapSet(c, cacheKey, UnionOfSets(mapping.Actions))]

\* GetResourceActions on database mappings m and cache c: the error flag, the
\* ResourceActions returned and the cache afterwards.
GetResourceActions(m, c, resourceType, attributes) ==
    IF ~HasMapping(m, resourceType)
    THEN [err |-> TRUE, cache |-> c]
    ELSE LET cacheKey == buildCacheKey(resourceType, attributes)
             mapping == GetMapping(m, resourceType).mapping
         IN  IF cacheKey \in DOMAIN c
             THEN [err |-> FALSE,
                   out |-> [ResourceType |-> resourceType,
                            Service |-> mapping.Service,
                            Actions |-> c[cacheKey],
                            Reason |-> "Retrieved from cache"],
                   cache |-> c]
             ELSE LET allActions == ComputeActions(mapping, attributes)
                  IN  [err |-> FALSE,
                       out |-> [ResourceType |-> resourceType,
                                Service |-> mapping.Service,
                                Actions |-> allActions,
                                Reason |-> "Mapped from resource type " \o resourceType
                                           \o " with "
                                           \o Itoa(Cardinality(DOMAIN attributes))
                                           \o " attributes"],
                       cache |-> MapSet(c, cacheKey, allActions)]

RECURSIVE resolveEach(_, _, _, _, _)
\* The loop of GetActionsForMultipleResources over resources (resource type ->
\* attributes) in iteration order `order`: a type that fails is passed over.
resolveEach(m, c, resources, order, result) ==
    IF order = <<>> THEN [err |-> FALSE, out |-> result, cache |-> c]
    ELSE LET r == GetResourceActions(m, c, Head(order), resources[Head(order)])
         IN  IF r.err
             THEN resolveEach(m, r.cache, resources, Tail(order), result)
             ELSE resolveEach(m, r.cache, resources, Tail(order),
                              MapSet(result, Head(order), r.out))

\* Variant of GetActionsForMultipleResources that gives up with an error
\* when one of the resource types has no mapping.
GetActionsForMultipleResourcesFailFast(m, c, resources, order) ==
    LET r == resolveEach(m, c, resources, order, EmptyMap)
    IN  IF \E t \in DOMAIN resources : ~HasMapping(m, t)
        THEN [err |-> TRUE, out |-> EmptyMap, cache |-> r.cache]
        ELSE r

\* GetActionsForMultipleResources
GetActionsForMultipleResources(m, c, resources, order) ==
    resolveEach(m, c, resources, order, EmptyMap)

\* Variant of CombineActions that keeps the actions of the first result only.
CombineActionsFirstOnly(resourceActions) ==
    IF resourceActions = <<>> THEN {} ELSE resourceActions[1].Actions

\* CombineActions: a new ActionSet to which the Actions of every argument are
\* added (AddAll), the arguments being read only.
CombineActions(resourceActions) ==
    UNION {resourceActions[i].Actions : i \in DOMAIN resourceActions}

\* GetActionsByService: every action goes to the group named by
\* strings.Split(action, ":")[0], which for an action without ':' is the
\* action itself.
GetActionsByService(allActions) ==
    [service \in {SplitFirst(a) : a \in allActions} |->
        {a \in allActions : SplitFirst(a) = service}]

\* ClearCache
ClearedCache == EmptyMap

(***************************************************************************)
(* Policies (package policy: Policy, Statement, PolicyBuilder).            *)
(*                                                                         *)
(* A string slice is a sequence; MergeActions and MergeResources return a  *)
(* nil slice when nothing was merged, which encodes as JSON null.          *)
(***************************************************************************)
PolicyVersion == "2012-10-17"

EffectAllow == "Allow"

\* NewPolicy
NewPolicy == [Version |-> PolicyVersion, Statement |-> <<>>]

RECURSIVE Dedup(_, _)
\* The elements of seq in order of first occurrence, those in seen left out.
Dedup(seq, seen) ==
    IF seq = <<>> THEN <<>>
    ELSE IF Head(seq) \in seen THEN Dedup(Tail(seq), seen)
    ELSE <<Head(seq)>> \o Dedup(Tail(seq), seen \cup {Head(seq)})

RECURSIVE Flatten(_)
Flatten(slices) ==
    IF slices = <<>> THEN <<>> ELSE Head(slices) \o Flatten(Tail(slices))

\* MergeActions: the slices' strings without duplicates, sorted.
MergeActions(actionSlices) == SortStrings(Dedup(Flatten(actionSlices), {}))

\* MergeResources
MergeResources(resourceSlices) == SortStrings(Dedup(Flatten(resourceSlices), {}))

\* Policy.AddStatement: sorts the statement's lists and appends it.
AddStatement(p, statement) ==
    [p EXCEPT !.Statement =
        Append(@, [statement EXCEPT !.Action = SortStrings(@),
                                    !.Resource = SortStrings(@)])]

\* NewPolicyBuilder: a new policy, the options, and the zero PolicyMetadata.
NewPolicyBuilder(opts) ==
    [policy |-> NewPolicy, options |-> opts,
     metadata |-> [ResourceCount |-> 0, ActionCount |-> 0,
                   Services |-> <<>>, Checksum |-> ""]]

\* PolicyBuilder.AddActionStatement
AddActionStatement(pb, sid, actions, resources) ==
    [pb EXCEPT !.policy =
        AddStatement(@, [Sid |-> sid,
                         Effect |-> EffectAllow,
                         Action |-> MergeActions(<<actions>>),
                         Resource |-> MergeResources(<<resources>>)])]

\* A string as encoding/json writes it (the model's strings need no escapes).
JSONString(s) == "\"" \o s \o "\""

\* A []string as encoding/json writes it: null for the nil slice.
JSONStringList(seq) ==
    IF seq = <<>> THEN "null"
    ELSE "[" \o JoinStrings([i \in DOMAIN seq |-> JSONString(seq[i])], ",") \o "]"

\* A Statement as encoding/json writes it: Sid is left out when empty,
\* Principal and Condition are never set.
JSONStatement(st) ==
    "{" \o (IF st.Sid = "" THEN "" ELSE "\"Sid\":" \o JSONString(st.Sid) \o ",")
        \o "\"Effect\":" \o JSONString(st.Effect)
        \o ",\"Action\":" \o JSONStringList(st.Action)
        \o ",\"Resource\":" \o JSONStringList(st.Resource) \o "}"

\* Policy.ToCompactJSON: json.Marshal of the policy as it stands.
ToCompactJSON(p) ==
    "{\"Version\":" \o JSONString(p.Version)
        \o ",\"Statement\":["
        \o JoinStrings([i \in DOMAIN p.Statement |-> JSONStatement(p.Statement[i])], ",")
        \o "]}"

\* sortStatements' less(i, j): by Sid, then by first action when both
\* statements have one, then by position.
StatementLess(statements, i, j) ==
    IF statements[i].Sid # statements[j].Sid
    THEN StrLess(statements[i].Sid, statements[j].Sid)
    ELSE IF Len(statements[i].Action) > 0 /\ Len(statements[j].Action) > 0
    THEN StrLess(statements[i].Action[1], statements[j].Action[1])
    ELSE i < j

\* statements with elements i and j exchanged.
SwapStatements(statements, i, j) ==
    [statements EXCEPT ![i] = statements[j], ![j] = statements[i]]

RECURSIVE sinkStatement(_, _)
\* The inner loop of the insertion sort: element j moves down while it is
\* less than the one before it.
sinkStatement(statements, j) ==
    IF j > 1 /\ StatementLess(statements, j, j - 1)
    THEN sinkStatement(SwapStatements(statements, j, j - 1), j - 1)
    ELSE statements

RECURSIVE insertionSortFrom(_, _)
insertionSortFrom(statements, i) ==
    IF i > Len(statements) THEN statements
    ELSE insertionSortFrom(sinkStatement(statements, i), i + 1)

\* sortStatements: sort.Slice, which sorts a slice of fewer than seven
\* elements by insertion; the slice is the policy's own.
sortStatements(statements) == insertionSortFrom(statements, 2)

\* A []string as json.MarshalIndent writes it at nesting `indent`.
JSONIndentStringList(seq, indent) ==
    IF seq = <<>> THEN "null"
    ELSE "[\n"
         \o JoinStrings([i \in DOMAIN seq |-> indent \o "  " \o JSONString(seq[i])], ",\n")
         \o "\n" \o indent \o "]"

\* A Statement as json.MarshalIndent writes it inside the Statement array.
JSONIndentStatement(st) ==
    "    {\n"
    \o (IF st.Sid = "" THEN "" ELSE "      \"Sid\": " \o JSONString(st.Sid) \o ",\n")
    \o "      \"Effect\": " \o JSONString(st.Effect) \o ",\n"
    \o "      \"Action\": " \o JSONIndentStringList(st.Action, "      ") \o ",\n"
    \o "      \"Resource\": " \o JSONIndentStringList(st.Resource, "      ") \o "\n"
    \o "    }"

\* Policy.ToJSON: the statements are sorted in place, then the policy is
\* written with two-space indentation. Returns the text and the policy as the
\* call leaves it.
ToJSON(p) ==
    LET sorted == [p EXCEPT !.Statement = sortStatements(@)]
    IN  [json |->
            "{\n  \"Version\": " \o JSONString(sorted.Version) \o ",\n  \"Statement\": "
            \o (IF sorted.Statement = <<>> THEN "[]"
                ELSE "[\n"
                     \o JoinStrings([i \in DOMAIN sorted.Statement |->
                                        JSONIndentStatement(sorted.Statement[i])], ",\n")
                     \o "\n  ]")
            \o "\n}",
         policy |-> sorted]

\* Variant of GetServicesFromStatements that takes the service of the first
\* action of each statement only.
GetServicesFromFirstActions(statements) ==
    SortedKeys({SplitFirst(statements[i].Action[1]) :
                   i \in {j \in DOMAIN statements : Len(statements[j].Action) > 0}})

\* GetServicesFromStatements: the service of every action, once, sorted.
GetServicesFromStatements(statements) ==
    SortedKeys(UNION {{SplitFirst(a) : a \in Range(statements[i].Action)} :
                         i \in DOMAIN statements})


(***************************************************************************)
(* The policy generator (internal/policy/generator.go).                    *)
(*                                                                         *)
(* A ParseResult is NilParseResult or [Resources |-> sequence of           *)
(* [Type, Attributes]]; a resource's name and source position reach no     *)
(* output. A Generator is its options, [GroupBy, UseWildcardResources],    *)
(* over the one mapping service.                                           *)
(***************************************************************************)
NilParseResult == [nil |-> TRUE]

NilPolicy == [nil |-> TRUE]

IsNil(x) == "nil" \in DOMAIN x

\* The attribute map GeneratePolicy hands to GetResourceActions.
GeneratorAttributes(resource) == EmptyMap

RECURSIVE collectActions(_, _, _, _)
\* The resource loop of GeneratePolicy: the actions of every resource that
\* resolves are added to allActions, a resource that does not is passed over.
collectActions(m, c, resources, allActions) ==
    IF resources = <<>> THEN [allActions |-> allActions, cache |-> c]
    ELSE LET r == GetResourceActions(m, c, Head(resources).Type,
                                     GeneratorAttributes(Head(resources)))
         IN  IF r.err
             THEN collectActions(m, r.cache, Tail(resources), allActions)
             ELSE collectActions(m, r.cache, Tail(resources),
                                 allActions \cup r.out.Actions)

\* The actions of seq whose service is `service`, in order.
SelectService(seq, service) == SelectSeq(seq, LAMBDA a : SplitFirst(a) = service)

RECURSIVE addServiceStatements(_, _, _)
addServiceStatements(builder, services, order) ==
    IF services = <<>> THEN builder
    ELSE addServiceStatements(
            AddActionStatement(builder,
                               Title(Head(services)) \o "Permissions",
                               SortStrings(SelectService(order, Head(services))),
                               <<"*">>),
            Tail(services), order)

\* Variant of generateStatementsGroupedByService that uses the services in
\* the order the action set yields them, without sorting them.
generateStatementsInIterationOrder(builder, order) ==
    addServiceStatements(
        builder,
        Dedup([i \in DOMAIN order |-> SplitFirst(order[i])], {}),
        order)

\* generateStatementsGroupedByService; `order` is the order in which the
\* action set is ranged over. The services found are sorted before use.
generateStatementsGroupedByService(builder, order) ==
    addServiceStatements(
        builder,
        SortStrings(Dedup([i \in DOMAIN order |-> SplitFirst(order[i])], {})),
        order)

\* Variant of generateStatementsFlat that appends the statement with the
\* actions as ToSlice returned them, neither merged nor sorted.
generateStatementsFlatAsIterated(builder, order) ==
    [builder EXCEPT !.policy.Statement =
        Append(@, [Sid |-> "AllResourcesPermissions",
                   Effect |-> EffectAllow,
                   Action |-> order,
                   Resource |-> <<"*">>])]

\* generateStatementsFlat; `order` is what ActionSet.ToSlice returns, the
\* actions in iteration order.
generateStatementsFlat(builder, order) ==
    AddActionStatement(builder, "AllResourcesPermissions", order, <<"*">>)

\* The hex MD5 digest of a string, kept symbolic: equal digests, equal strings.
MD5Hex(str) == "md5(" \o str \o ")"

\* calculateChecksum
calculateChecksum(policy) == MD5Hex(ToCompactJSON(policy))

\* GeneratePolicy by generator g on parse result pr; `order` is the iteration
\* order of the collected action set. Of the metadata, GeneratedAt (the clock
\* reading, which nothing else depends on) is left out; allActions is the
\* generator's local action set, kept for inspection.
GeneratePolicy(m, c, g, pr, order) ==
    IF IsNil(pr)
    THEN [err |-> TRUE, policy |-> NilPolicy, cache |-> c]
    ELSE LET acc == collectActions(m, c, pr.Resources, {})
             builder == IF g.GroupBy = "service"
                        THEN generateStatementsGroupedByService(NewPolicyBuilder(g), order)
                        ELSE generateStatementsFlat(NewPolicyBuilder(g), order)
         IN  [err |-> FALSE,
              policy |-> builder.policy,
              metadata |-> [ResourceCount |-> Len(pr.Resources),
                            ActionCount |-> Cardinality(acc.allActions),
                            Services |-> GetServicesFromStatements(builder.policy.Statement),
                            Checksum |-> calculateChecksum(builder.policy)],
              allActions |-> acc.allActions,
              cache |-> acc.cache]

RECURSIVE ReplaceAll(_, _, _)
\* strings.ReplaceAll(s, old, new) for a one-character old.
ReplaceAll(s, old, new) ==
    IF s = "" THEN ""
    ELSE (IF CharAt(s, 1) = old THEN new ELSE CharAt(s, 1))
         \o ReplaceAll(SubSeq(s, 2, Len(s)), old, new)

RECURSIVE collectByResource(_, _, _, _, _)
\* The resource loop of GeneratePolicyWithResources: the actions of every
\* resource that resolves are appended to its type's entry of
\* statementsByResource (held here as the set the later loop reduces it to)
\* and added to allActions.
collectByResource(m, c, resources, statementsByResource, allActions) ==
    IF resources = <<>>
    THEN [statementsByResource |-> statementsByResource,
          allActions |-> allActions, cache |-> c]
    ELSE LET rt == Head(resources).Type
             r == GetResourceActions(m, c, rt, GeneratorAttributes(Head(resources)))
         IN  IF r.err
             THEN collectByResource(m, r.cache, Tail(resources),
                                    statementsByResource, allActions)
             ELSE collectByResource(
                     m, r.cache, Tail(resources),
                     MapSet(statementsByResource, rt,
                            (IF rt \in DOMAIN statementsByResource
                             THEN statementsByResource[rt] ELSE {})
                            \cup r.out.Actions),
                     allActions \cup r.out.Actions)

\* Variant of ResourceARN that leaves the given ARNs aside.
ResourceARNWildcard(resourceARNs, resourceType) == "*"

\* generator.go:155-159: the ARN given for the resource type, "*" without one.
ResourceARN(resourceARNs, resourceType) ==
    IF resourceType \in DOMAIN resourceARNs THEN resourceARNs[resourceType] ELSE "*"

\* generator.go:161: the statement id of a resource type.
ResourceSid(resourceType) == ReplaceAll(Title(resourceType), "_", "") \o "Access"

RECURSIVE addResourceStatements(_, _, _, _)
\* The statement loop of GeneratePolicyWithResources over the resource types
\* in iteration order `order`.
addResourceStatements(pb, statementsByResource, resourceARNs, order) ==
    IF order = <<>> THEN pb
    ELSE addResourceStatements(
            AddActionStatement(pb,
                               ResourceSid(Head(order)),
                               SortedKeys(statementsByResource[Head(order)]),
                               <<ResourceARN(resourceARNs, Head(order))>>),
            statementsByResource, resourceARNs, Tail(order))

\* GeneratePolicyWithResources by generator g; `order` is the order in which
\* statementsByResource is ranged over. GeneratedAt is left out as in
\* GeneratePolicy.
GeneratePolicyWithResources(m, c, g, pr, resourceARNs, order) ==
    IF IsNil(pr)
    THEN [err |-> TRUE, policy |-> NilPolicy, cache |-> c]
    ELSE LET acc == collectByResource(m, c, pr.Resources, EmptyMap, {})
             pb == addResourceStatements(NewPolicyBuilder(g), acc.statementsByResource,
                                         resourceARNs, order)
         IN  [err |-> FALSE,
              policy |-> pb.policy,
              metadata |-> [ResourceCount |-> Len(pr.Resources),
                            ActionCount |-> Cardinality(acc.allActions),
                            Services |-> GetServicesFromStatements(pb.policy.Statement),
                            Checksum |-> calculateChecksum(pb.policy)],
              allActions |-> acc.allActions,
              cache |-> acc.cache]

\* The resource types of a resource list, each once, in order of first use.
DistinctTypes(resources) == Dedup([i \in DOMAIN resources |-> resources[i].Type], {})

\* Variant of AnalyzePolicyGaps that takes a nil parse result for one
\* without resources.
AnalyzePolicyGapsNilAsEmpty(m, pr) ==
    [err |-> FALSE,
     unmapped |-> IF IsNil(pr) THEN <<>> ELSE SortStrings(DistinctTypes(pr.Resources))]

\* AnalyzePolicyGaps: every resource type seen is appended, then the list is
\* sorted; the database is not consulted.
AnalyzePolicyGaps(m, pr) ==
    IF IsNil(pr) THEN [err |-> TRUE]
    ELSE [err |-> FALSE, unmapped |-> SortStrings(DistinctTypes(pr.Resources))]

\* GetPolicyCoverage: mappedCount counts every key of resourcesByType, so the
\* quotient mappedCount / len(resourcesByType) is 1 whenever it is defined.
GetPolicyCoverage(m, pr) ==
    IF IsNil(pr) THEN [err |-> TRUE]
    ELSE LET types == Range(DistinctTypes(pr.Resources))
             resourcesByType ==
                [t \in types |->
                    Cardinality({i \in DOMAIN pr.Resources : pr.Resources[i].Type = t})]
             mappedCount == Cardinality(DOMAIN resourcesByType)
         IN  [err |-> FALSE,
              total_resource_types |-> Cardinality(DOMAIN resourcesByType),
              mapped_types |-> mappedCount,
              coverage_percent |->
                 IF Cardinality(DOMAIN resourcesByType) = 0 THEN 0
                 ELSE (mappedCount \div Cardinality(DOMAIN resourcesByType)) * 100,
              resources_by_type |-> resourcesByType]

\* Variant of StatementWarnings that warns of a wildcard resource whatever
\* the options.
StatementWarningsIgnoringOptions(g, stmt, i) ==
    (IF Len(stmt.Action) = 0
     THEN <<"Statement " \o Itoa(i - 1) \o " has no actions">> ELSE <<>>)
    \o (IF Len(stmt.Resource) = 0
        THEN <<"Statement " \o Itoa(i - 1) \o " has no resources">> ELSE <<>>)
    \o (IF Len(stmt.Action) = 1 /\ stmt.Action[1] = "*"
        THEN <<"Statement " \o Itoa(i - 1) \o " has wildcard actions">> ELSE <<>>)
    \o (IF Len(stmt.Resource) = 1 /\ stmt.Resource[1] = "*"
        THEN <<"Statement " \o Itoa(i - 1) \o " has wildcard resources">> ELSE <<>>)

\* The warnings ValidatePolicy appends for statement i (0-based in the text).
StatementWarnings(g, stmt, i) ==
    (IF Len(stmt.Action) = 0
     THEN <<"Statement " \o Itoa(i - 1) \o " has no actions">> ELSE <<>>)
    \o (IF Len(stmt.Resource) = 0
        THEN <<"Statement " \o Itoa(i - 1) \o " has no resources">> ELSE <<>>)
    \o (IF Len(stmt.Action) = 1 /\ stmt.Action[1] = "*"
        THEN <<"Statement " \o Itoa(i - 1) \o " has wildcard actions">> ELSE <<>>)
    \o (IF Len(stmt.Resource) = 1 /\ stmt.Resource[1] = "*" /\ ~g.UseWildcardResources
        THEN <<"Statement " \o Itoa(i - 1) \o " has wildcard resources">> ELSE <<>>)

RECURSIVE warningsFrom(_, _, _)
warningsFrom(g, statements, i) ==
    IF i > Len(statements) THEN <<>>
    ELSE StatementWarnings(g, statements[i], i) \o warningsFrom(g, statements, i + 1)

\* ValidatePolicy
ValidatePolicy(g, policy) ==
    IF IsNil(policy) THEN [err |-> TRUE, warnings |-> <<>>]
    ELSE [err |-> FALSE,
          warnings |->
             (IF Len(policy.Statement) = 0
              THEN <<"Policy contains no statements">> ELSE <<>>)
             \o warningsFrom(g, policy.Statement, 1)]


(***************************************************************************)
(* Inputs of the calls.                                                    *)
(***************************************************************************)
\* "x" is in no mapping file.
ResourceTypes == {"fn", "fn:log", "vm", "x"}

AttributeMaps == {EmptyMap, [log |-> TRUE], [log |-> FALSE]}

\* The attribute maps a resource of type rt is resolved with.
AttributesFor(rt) == IF rt = "fn" THEN AttributeMaps ELSE {EmptyMap}

\* The resources a parse result may list.
ResourceUniverse ==
    {[Type |-> "fn", Attributes |-> [log |-> TRUE]],
     [Type |-> "fn:log", Attributes |-> EmptyMap],
     [Type |-> "vm", Attributes |-> EmptyMap],
     [Type |-> "x", Attributes |-> EmptyMap]}

ResourceLists == UNION {[1..n -> ResourceUniverse] : n \in 0..MaxResources}

ParseResults == {NilParseResult} \cup {[Resources |-> l] : l \in ResourceLists}

\* The resource maps handed to GetActionsForMultipleResources.
ResourceMaps ==
    UNION {{f \in [T -> AttributeMaps] : \A t \in T : f[t] \in AttributesFor(t)} :
              T \in {S \in SUBSET ResourceTypes : Cardinality(S) <= MaxResources}}

\* The resourceARNs maps handed to GeneratePolicyWithResources.
ArnMaps == {EmptyMap, [fn |-> "arn:aws:s3:::b"]}

\* The action sets handed to GetActionsByService: actions of two services,
\* one with a second ':', one without any.
GroupableActions == SUBSET {"s3:Get", "s3:Put", "ec2:Run", "sts:a:b", "admin"}

\* The ResourceActions handed to CombineActions: two that share an action
\* and one without actions.
CombinableResults ==
    {[ResourceType |-> "fn", Service |-> "s3", Actions |-> {"s3:Put", "s3:Get"},
      Reason |-> "Retrieved from cache"],
     [ResourceType |-> "vm", Service |-> "ec2", Actions |-> {"ec2:Run", "s3:Get"},
      Reason |-> "Retrieved from cache"],
     [ResourceType |-> "x", Service |-> "", Actions |-> {},
      Reason |-> "Retrieved from cache"]}

Generators ==
    [GroupBy : {"service", "flat", "resource"}, UseWildcardResources : BOOLEAN]

(***************************************************************************)
(* The state machine. One client calls the operations one at a time: a     *)
(* call runs to completion and leaves what it returned in ret, and the     *)
(* client takes the result (Return) before its next call. ValidatePolicy   *)
(* is called on the policy GeneratePolicy has just returned, by the        *)
(* generator that returned it.                                             *)
(***************************************************************************)
Idle == [op |-> "idle"]

\* No goroutine besides the client.
NoProcs == EmptyMap

\* A sync.RWMutex nobody holds for writing.
Unlocked == "unlocked"

\* No PolicyBuilder constructed.
NilBuilder == [nil |-> TRUE]

Init ==
    /\ mappings = NewMappingDatabase.mappings
    /\ loaded = NewMappingDatabase.loaded
    /\ cache = EmptyMap
    /\ ret = Idle
    /\ resolved = EmptyMap
    /\ procs = NoProcs
    /\ dbmu = Unlocked
    /\ policyBuilder = NilBuilder
    /\ built = NilPolicy

Load ==
    /\ ret.op = "idle"
    /\ \E d \in DOMAIN Dirs : \E orders \in FileOrders(Dirs[d]) :
          LET r == LoadMappings([mappings |-> mappings, loaded |-> loaded],
                                Dirs[d], orders)
          IN  /\ mappings' = r.mappings
              /\ loaded' = r.loaded
              /\ ret' = [op |-> "LoadMappings", dir |-> d, err |-> r.err]
    /\ UNCHANGED <<cache, resolved, procs, dbmu, policyBuilder, built>>

Clear ==
    /\ ret.op = "idle"
    /\ mappings' = EmptyMap
    /\ loaded' = FALSE
    /\ ret' = [op |-> "Clear"]
    /\ UNCHANGED <<cache, resolved, procs, dbmu, policyBuilder, built>>

ClearCache ==
    /\ ret.op = "idle"
    /\ cache' = ClearedCache
    /\ ret' = [op |-> "ClearCache"]
    /\ UNCHANGED <<mappings, loaded, resolved, procs, dbmu, policyBuilder, built>>

\* What the client keeps of a GetResourceActions call.
ResolveResult(rt, attrs, r) ==
    IF r.err
    THEN [op |-> "GetResourceActions", resourceType |-> rt, attributes |-> attrs,
          err |-> TRUE, pre |-> cache]
    ELSE [op |-> "GetResourceActions", resourceType |-> rt, attributes |-> attrs,
          err |-> FALSE, out |-> r.out, pre |-> cache]

Resolve ==
    /\ ret.op = "idle"
    /\ \E rt \in ResourceTypes : \E attrs \in AttributesFor(rt) :
          LET r == GetResourceActions(mappings, cache, rt, attrs)
          IN  /\ cache' = r.cache
              /\ ret' = ResolveResult(rt, attrs, r)
    /\ UNCHANGED <<mappings, loaded, resolved, procs, dbmu, policyBuilder, built>>

ResolveMany ==
    /\ ret.op = "idle"
    /\ \E resources \in ResourceMaps : \E order \in Orderings(DOMAIN resources) :
          LET r == GetActionsForMultipleResources(mappings, cache, resources, order)
          IN  /\ cache' = r.cache
              /\ ret' = [op |-> "GetActionsForMultipleResources",
                         resources |-> resources, err |-> r.err, out |-> r.out,
                         pre |-> cache]
    /\ UNCHANGED <<mappings, loaded, resolved, procs, dbmu, policyBuilder, built>>

Generate ==
    /\ ret.op = "idle"
    /\ \E g \in Generators, pr \in ParseResults :
          \E order \in Orderings(IF IsNil(pr) THEN {}
                                 ELSE collectActions(mappings, cache, pr.Resources, {}).allActions) :
             LET r == GeneratePolicy(mappings, cache, g, pr, order)
             IN  /\ cache' = r.cache
                 /\ ret' = [op |-> "GeneratePolicy", g |-> g, input |-> pr,
                            result |-> [r EXCEPT !.cache = EmptyMap], pre |-> cache]
    /\ UNCHANGED <<mappings, loaded, resolved, procs, dbmu, policyBuilder, built>>

\* The resource types of pr that resolve, the keys of statementsByResource.
MappedTypes(pr) ==
    IF IsNil(pr) THEN {}
    ELSE {pr.Resources[i].Type : i \in DOMAIN pr.Resources} \cap DOMAIN mappings

GenerateWithResources ==
    /\ ret.op = "idle"
    /\ \E g \in Generators, pr \in ParseResults, arns \in ArnMaps :
          \E order \in Orderings(MappedTypes(pr)) :
             LET r == GeneratePolicyWithResources(mappings, cache, g, pr, arns, order)
             IN  /\ cache' = r.cache
                 /\ ret' = [op |-> "GeneratePolicyWithResources", g |-> g, input |-> pr,
                            resourceARNs |-> arns,
                            result |-> [r EXCEPT !.cache = EmptyMap], pre |-> cache]
    /\ UNCHANGED <<mappings, loaded, resolved, procs, dbmu, policyBuilder, built>>

GroupByService ==
    /\ ret.op = "idle"
    /\ \E allActions \in GroupableActions :
          ret' = [op |-> "GetActionsByService", allActions |-> allActions,
                  out |-> GetActionsByService(allActions)]
    /\ UNCHANGED <<mappings, loaded, cache, resolved, procs, dbmu, policyBuilder, built>>

Combine ==
    /\ ret.op = "idle"
    /\ \E n \in 0..MaxResources : \E resourceActions \in [1..n -> CombinableResults] :
          ret' = [op |-> "CombineActions", resourceActions |-> resourceActions,
                  out |-> CombineActions(resourceActions), pre |-> cache]
    /\ UNCHANGED <<mappings, loaded, cache, resolved, procs, dbmu, policyBuilder, built>>

Gaps ==
    /\ ret.op = "idle"
    /\ \E pr \in ParseResults :
          ret' = [op |-> "AnalyzePolicyGaps", input |-> pr,
                  result |-> AnalyzePolicyGaps(mappings, pr)]
    /\ UNCHANGED <<mappings, loaded, cache, resolved, procs, dbmu, policyBuilder, built>>

Coverage ==
    /\ ret.op = "idle"
    /\ \E pr \in ParseResults :
          ret' = [op |-> "GetPolicyCoverage", input |-> pr,
                  result |-> GetPolicyCoverage(mappings, pr)]
    /\ UNCHANGED <<mappings, loaded, cache, resolved, procs, dbmu, policyBuilder, built>>

Validate ==
    /\ ret.op = "GeneratePolicy"
    /\ ret' = [op |-> "ValidatePolicy", g |-> ret.g, generated |-> ret,
               policy |-> ret.result.policy,
               result |-> ValidatePolicy(ret.g, ret.result.policy)]
    /\ UNCHANGED <<mappings, loaded, cache, resolved, procs, dbmu, policyBuilder, built>>

Return ==
    /\ ret.op # "idle"
    /\ ret' = Idle
    /\ UNCHANGED <<mappings, loaded, cache, resolved, procs, dbmu, policyBuilder, built>>

Next ==
    \/ Load
    \/ Clear
    \/ ClearCache
    \/ Resolve
    \/ ResolveMany
    \/ Generate
    \/ GenerateWithResources
    \/ GroupByService
    \/ Combine
    \/ Gaps
    \/ Coverage
    \/ Validate
    \/ Return

Spec == Init /\ [][Next]_vars


(***************************************************************************)
(* SpecCache: the lookup service over a knowledge base that stays as it    *)
(* was loaded, under GetResourceActions calls alone (single or batched).   *)
(* The client writes down, per (resource type, set of attribute names),    *)
(* the action set the first successful call returned.                      *)
(***************************************************************************)
\* The database after LoadMappings("main") on a new database.
LoadedMain ==
    LoadMappings(NewMappingDatabase, Dirs.main,
                 CHOOSE orders \in FileOrders(Dirs.main) : TRUE)

InitCache ==
    /\ mappings = LoadedMain.mappings
    /\ loaded = LoadedMain.loaded
    /\ cache = EmptyMap
    /\ ret = Idle
    /\ resolved = EmptyMap
    /\ procs = NoProcs
    /\ dbmu = Unlocked
    /\ policyBuilder = NilBuilder
    /\ built = NilPolicy

\* The client's key for a call: the resource type and the attribute names.
CallKey(r) == <<r.resourceType, DOMAIN r.attributes>>

ReturnNoted ==
    /\ ret.op # "idle"
    /\ ret' = Idle
    /\ resolved' =
          IF ret.op = "GetResourceActions" /\ ~ret.err /\ CallKey(ret) \notin DOMAIN resolved
          THEN MapSet(resolved, CallKey(ret), ret.out.Actions)
          ELSE resolved
    /\ UNCHANGED <<mappings, loaded, cache, procs, dbmu, policyBuilder, built>>

NextCache ==
    \/ Resolve
    \/ ResolveMany
    \/ ReturnNoted

SpecCache == InitCache /\ [][NextCache]_vars


(***************************************************************************)
(* Concurrent lookups on a fixed database. Goroutines call                 *)
(* GetResourceActions at the same time as one another and as ClearCache.   *)
(* A step is what a goroutine does between two lock operations: the        *)
(* sections guarded by MappingService.mu (the cache read of lines 17-28,   *)
(* the store of lines 54-56, ClearCache) are one step each, and a read of  *)
(* the database waits while a writer holds MappingDatabase.mu.             *)
(***************************************************************************)
Resolvers == {"r1", "r2"}

\* Variant of CanRLock: the read lock is granted whoever holds the mutex.
CanRLockAlways(mu) == TRUE

\* RLock on MappingDatabase.mu succeeds when no writer holds it.
CanRLock(mu) == mu = Unlocked

\* goroutine t moves to state rec.
SetProc(t, rec) == [procs EXCEPT ![t] = rec]

InitResolvers ==
    /\ mappings = LoadedMain.mappings
    /\ loaded = LoadedMain.loaded
    /\ cache = EmptyMap
    /\ ret = Idle
    /\ resolved = EmptyMap
    /\ procs = [t \in Resolvers |-> [pc |-> "idle"]]
    /\ dbmu = Unlocked
    /\ policyBuilder = NilBuilder
    /\ built = NilPolicy

\* A goroutine calls GetResourceActions(resourceType, attributes).
GRACall(t) ==
    /\ procs[t].pc = "idle"
    /\ \E rt \in ResourceTypes : \E attrs \in AttributesFor(rt) :
          procs' = SetProc(t, [pc |-> "HasMapping", resourceType |-> rt,
                               attributes |-> attrs])
    /\ UNCHANGED <<mappings, loaded, cache, ret, resolved, dbmu, policyBuilder, built>>

\* service.go:11-16: the existence check and the cache key.
GRAHasMapping(t) ==
    /\ procs[t].pc = "HasMapping"
    /\ CanRLock(dbmu)
    /\ procs' = SetProc(t,
          IF ~HasMapping(mappings, procs[t].resourceType)
          THEN [procs[t] EXCEPT !.pc = "done"] @@ [err |-> TRUE]
          ELSE [procs[t] EXCEPT !.pc = "cache"]
               @@ [cacheKey |-> buildCacheKey(procs[t].resourceType,
                                              procs[t].attributes)])
    /\ UNCHANGED <<mappings, loaded, cache, ret, resolved, dbmu, policyBuilder, built>>

\* service.go:17-28: the cache read under the read lock.
GRAReadCache(t) ==
    /\ procs[t].pc = "cache"
    /\ procs' = SetProc(t,
          IF procs[t].cacheKey \in DOMAIN cache
          THEN [procs[t] EXCEPT !.pc = "hit"] @@ [cached |-> cache[procs[t].cacheKey]]
          ELSE [procs[t] EXCEPT !.pc = "miss"])
    /\ UNCHANGED <<mappings, loaded, cache, ret, resolved, dbmu, policyBuilder, built>>

\* service.go:20-26: the mapping is fetched for its Service and the cached
\* set returned; an absent mapping is a nil pointer and mapping.Service panics.
GRAHit(t) ==
    /\ procs[t].pc = "hit"
    /\ CanRLock(dbmu)
    /\ LET got == GetMapping(mappings, procs[t].resourceType)
       IN  procs' = SetProc(t,
              IF ~got.exists
              THEN [procs[t] EXCEPT !.pc = "panic"]
              ELSE [procs[t] EXCEPT !.pc = "done"]
                   @@ [err |-> FALSE,
                       out |-> [ResourceType |-> procs[t].resourceType,
                                Service |-> got.mapping.Service,
                                Actions |-> procs[t].cached,
                                Reason |-> "Retrieved from cache"]])
    /\ UNCHANGED <<mappings, loaded, cache, ret, resolved, dbmu, policyBuilder, built>>

\* service.go:30-51: the mapping is fetched and the action set built in a map
\* of the goroutine's own.
GRACompute(t) ==
    /\ procs[t].pc = "miss"
    /\ CanRLock(dbmu)
    /\ LET got == GetMapping(mappings, procs[t].resourceType)
       IN  procs' = SetProc(t,
              IF ~got.exists
              THEN [procs[t] EXCEPT !.pc = "panic"]
              ELSE [procs[t] EXCEPT !.pc = "store"]
                   @@ [service |-> got.mapping.Service,
                       allActions |-> ComputeActions(got.mapping, procs[t].attributes)])
    /\ UNCHANGED <<mappings, loaded, cache, ret, resolved, dbmu, policyBuilder, built>>

\* service.go:53-63: the finished set is stored under the write lock and
\* returned.
GRAStore(t) ==
    /\ procs[t].pc = "store"
    /\ cache' = MapSet(cache, procs[t].cacheKey, procs[t].allActions)
    /\ procs' = SetProc(t,
          [procs[t] EXCEPT !.pc = "done"]
          @@ [err |-> FALSE,
              out |-> [ResourceType |-> procs[t].resourceType,
                       Service |-> procs[t].service,
                       Actions |-> procs[t].allActions,
                       Reason |-> "Mapped from resource type " \o procs[t].resourceType
                                  \o " with "
                                  \o Itoa(Cardinality(DOMAIN procs[t].attributes))
                                  \o " attributes"]])
    /\ UNCHANGED <<mappings, loaded, ret, resolved, dbmu, policyBuilder, built>>

\* The caller has the result; the goroutine is free for the next call.
GRAReturn(t) ==
    /\ procs[t].pc = "done"
    /\ procs' = SetProc(t, [pc |-> "idle"])
    /\ UNCHANGED <<mappings, loaded, cache, ret, resolved, dbmu, policyBuilder, built>>

\* Another goroutine calls ClearCache: one section under the write lock.
ConcurrentClearCache ==
    /\ cache # ClearedCache
    /\ cache' = ClearedCache
    /\ UNCHANGED <<mappings, loaded, ret, resolved, procs, dbmu, policyBuilder, built>>

NextResolvers ==
    \/ \E t \in Resolvers : GRACall(t)
    \/ \E t \in Resolvers : GRAHasMapping(t)
    \/ \E t \in Resolvers : GRAReadCache(t)
    \/ \E t \in Resolvers : GRAHit(t)
    \/ \E t \in Resolvers : GRACompute(t)
    \/ \E t \in Resolvers : GRAStore(t)
    \/ \E t \in Resolvers : GRAReturn(t)
    \/ ConcurrentClearCache

SpecResolvers == InitResolvers /\ [][NextResolvers]_vars


(***************************************************************************)
(* LoadMappings beside readers. One goroutine calls LoadMappings, which    *)
(* holds the write lock of MappingDatabase.mu from its first line to its   *)
(* return and stores the records one at a time; other goroutines call      *)
(* GetMapping, HasMapping, GetAllMappings and IsLoaded, each a section     *)
(* under the read lock.                                                    *)
(***************************************************************************)
\* The number of LoadMappings calls the loading goroutine makes.
MaxLoads == 2

Loader == "w"

Readers == {"g1", "g2"}

\* GetAllMappings: a new map with the database's entries.
GetAllMappings(m) == [k \in DOMAIN m |-> m[k]]

\* IsLoaded
IsLoaded(isLoaded) == isLoaded

\* The reads of the database a goroutine may make.
DatabaseReads ==
    [name : {"GetMapping", "HasMapping"}, resourceType : {"fn", "vm", "x"}]
    \cup {[name |-> "GetAllMappings"], [name |-> "IsLoaded"]}

\* What read `read` returns on database db = [mappings, loaded].
ReadResult(read, db) ==
    IF read.name = "GetMapping" THEN GetMapping(db.mappings, read.resourceType)
    ELSE IF read.name = "HasMapping"
    THEN [has |-> HasMapping(db.mappings, read.resourceType)]
    ELSE IF read.name = "GetAllMappings" THEN [all |-> GetAllMappings(db.mappings)]
    ELSE [isLoaded |-> IsLoaded(db.loaded)]

\* Lock on MappingDatabase.mu succeeds when nobody holds it (a reader holds
\* it within one step only).
CanLock(mu) == mu = Unlocked

InitLoad ==
    /\ mappings = NewMappingDatabase.mappings
    /\ loaded = NewMappingDatabase.loaded
    /\ cache = EmptyMap
    /\ ret = Idle
    /\ resolved = EmptyMap
    /\ procs = [t \in {Loader} \cup Readers |->
                   IF t = Loader THEN [pc |-> "idle", n |-> 0] ELSE [pc |-> "idle"]]
    /\ dbmu = Unlocked
    /\ policyBuilder = NilBuilder
    /\ built = NilPolicy

\* The loading goroutine calls LoadMappings(dir); `before` is the database
\* as the call finds it.
LMCall ==
    /\ procs[Loader].pc = "idle"
    /\ procs[Loader].n < MaxLoads
    /\ \E d \in DOMAIN Dirs : \E orders \in FileOrders(Dirs[d]) :
          procs' = SetProc(Loader,
                      [pc |-> "Lock", n |-> procs[Loader].n + 1, dir |-> d,
                       orders |-> orders,
                       before |-> [mappings |-> mappings, loaded |-> loaded]])
    /\ UNCHANGED <<mappings, loaded, cache, ret, resolved, dbmu, policyBuilder, built>>

\* loader.go:13: db.mu.Lock()
LMLock ==
    /\ procs[Loader].pc = "Lock"
    /\ CanLock(dbmu)
    /\ dbmu' = Loader
    /\ procs' = SetProc(Loader, [procs[Loader] EXCEPT !.pc = "Glob"])
    /\ UNCHANGED <<mappings, loaded, cache, ret, resolved, policyBuilder, built>>

\* loader.go:16-36: the directory is looked up and its files listed; a
\* missing directory or one without files ends the call (the deferred
\* Unlock runs).
LMGlob ==
    /\ procs[Loader].pc = "Glob"
    /\ LET dir == Dirs[procs[Loader].dir]
       IN  IF ~dir.exists \/ Len(dir.files) = 0
           THEN /\ procs' = SetProc(Loader, [procs[Loader] EXCEPT !.pc = "done"]
                                            @@ [err |-> TRUE])
                /\ dbmu' = Unlocked
           ELSE /\ procs' = SetProc(Loader, [procs[Loader] EXCEPT !.pc = "File"]
                                            @@ [file |-> 1])
                /\ dbmu' = dbmu
    /\ UNCHANGED <<mappings, loaded, cache, ret, resolved, policyBuilder, built>>

\* loader.go:39-45, 51-60: the next file is read and decoded; after the last
\* file loaded is set and the call returns.
LMFile ==
    /\ procs[Loader].pc = "File"
    /\ LET dir == Dirs[procs[Loader].dir]
           i == procs[Loader].file
       IN  IF i > Len(dir.files)
           THEN /\ loaded' = TRUE
                /\ procs' = SetProc(Loader, [procs[Loader] EXCEPT !.pc = "done"]
                                            @@ [err |-> FALSE])
                /\ dbmu' = Unlocked
           ELSE IF ~dir.files[i].readable \/ ~dir.files[i].decodes
           THEN /\ loaded' = loaded
                /\ procs' = SetProc(Loader, [procs[Loader] EXCEPT !.pc = "done"]
                                            @@ [err |-> TRUE])
                /\ dbmu' = Unlocked
           ELSE /\ loaded' = loaded
                /\ procs' = SetProc(Loader, [procs[Loader] EXCEPT !.pc = "Record"]
                                            @@ [todo |-> procs[Loader].orders[i]])
                /\ dbmu' = dbmu
    /\ UNCHANGED <<mappings, cache, ret, resolved, policyBuilder, built>>

\* loader.go:64-82: one turn of the record loop of loadMappingFile.
LMRecord ==
    /\ procs[Loader].pc = "Record"
    /\ LET me == procs[Loader]
           data == Dirs[me.dir].files[me.file].data
       IN  IF me.todo = <<>>
           THEN /\ procs' = SetProc(Loader,
                               [x \in (DOMAIN me) \ {"todo"} |->
                                   IF x = "pc" THEN "File"
                                   ELSE IF x = "file" THEN me.file + 1 ELSE me[x]])
                /\ UNCHANGED <<mappings, dbmu>>
           ELSE LET one == loadRecords(mappings, data, <<Head(me.todo)>>)
                IN  IF one.err
                    THEN /\ procs' = SetProc(Loader,
                                        [x \in (DOMAIN me) \ {"todo", "file"} |->
                                            IF x = "pc" THEN "done" ELSE me[x]]
                                        @@ [err |-> TRUE])
                         /\ dbmu' = Unlocked
                         /\ mappings' = mappings
                    ELSE /\ procs' = SetProc(Loader, [me EXCEPT !.todo = Tail(me.todo)])
                         /\ mappings' = one.mappings
                         /\ dbmu' = dbmu
    /\ UNCHANGED <<loaded, cache, ret, resolved, policyBuilder, built>>

\* The caller of LoadMappings has its result.
LMReturn ==
    /\ procs[Loader].pc = "done"
    /\ procs' = SetProc(Loader, [pc |-> "idle", n |-> procs[Loader].n])
    /\ UNCHANGED <<mappings, loaded, cache, ret, resolved, dbmu, policyBuilder, built>>

\* A goroutine makes one read of the database under the read lock; `during`
\* is the number of the LoadMappings call in progress, 0 when there is none.
DBRead(t) ==
    /\ procs[t].pc = "idle"
    /\ CanRLock(dbmu)
    /\ \E read \in DatabaseReads :
          procs' = SetProc(t,
                      [pc |-> "done", read |-> read,
                       result |-> ReadResult(read, [mappings |-> mappings,
                                                    loaded |-> loaded]),
                       during |-> IF procs[Loader].pc \in {"idle", "done"} THEN 0
                                  ELSE procs[Loader].n])
    /\ UNCHANGED <<mappings, loaded, cache, ret, resolved, dbmu, policyBuilder, built>>

\* The reading goroutine is free for its next read.
DBReadReturn(t) ==
    /\ procs[t].pc = "done"
    /\ procs' = SetProc(t, [pc |-> "idle"])
    /\ UNCHANGED <<mappings, loaded, cache, ret, resolved, dbmu, policyBuilder, built>>

NextLoad ==
    \/ LMCall
    \/ LMLock
    \/ LMGlob
    \/ LMFile
    \/ LMRecord
    \/ LMReturn
    \/ \E t \in Readers : DBRead(t)
    \/ \E t \in Readers : DBReadReturn(t)

SpecLoad == InitLoad /\ [][NextLoad]_vars


(***************************************************************************)
(* Concurrent lookups on a database that other goroutines clear and load.  *)
(* Clear and LoadMappings hold the write lock of MappingDatabase.mu from   *)
(* their first line to their return, and every read of the database in     *)
(* GetResourceActions is a section of its own under the read lock, so each *)
(* of the two is one step between the steps of the lookups.                *)
(***************************************************************************)
\* Another goroutine calls Clear.
ConcurrentClear ==
    /\ CanLock(dbmu)
    /\ mappings # EmptyMap
    /\ mappings' = EmptyMap
    /\ loaded' = FALSE
    /\ UNCHANGED <<cache, ret, resolved, procs, dbmu, policyBuilder, built>>

\* Another goroutine calls LoadMappings on the directory main.
ConcurrentLoad ==
    /\ CanLock(dbmu)
    /\ mappings # LoadedMain.mappings
    /\ \E orders \in FileOrders(Dirs.main) :
          LET r == LoadMappings([mappings |-> mappings, loaded |-> loaded],
                                Dirs.main, orders)
          IN  /\ mappings' = r.mappings
              /\ loaded' = r.loaded
    /\ UNCHANGED <<cache, ret, resolved, procs, dbmu, policyBuilder, built>>

NextResolversReload ==
    \/ NextResolvers
    \/ ConcurrentClear
    \/ ConcurrentLoad

SpecResolversReload == InitResolvers /\ [][NextResolversReload]_vars


(***************************************************************************)
(* A policy built by hand. A client holds a PolicyBuilder, adds statements *)
(* to its policy through Policy.AddStatement and                           *)
(* PolicyBuilder.AddActionStatement, serializes the policy and has a       *)
(* Generator validate it. A statement the client hands to AddStatement     *)
(* without actions or resources has the nil slice there.                   *)
(***************************************************************************)
\* The most statements the client adds to the policy.
MaxStatements == 2

\* PolicyGenerationOptions{}
DefaultOptions == [GroupBy |-> "", UseWildcardResources |-> FALSE]

\* Action lists a client supplies: none, the wildcard, an unsorted list, a
\* list with a repeated entry.
ClientActionLists ==
    {<<>>, <<"*">>, <<"s3:Put", "s3:Get">>, <<"s3:Get", "ec2:Run", "s3:Get">>}

ClientResourceLists == {<<>>, <<"*">>, <<"arn:b", "arn:a", "arn:b">>}

ClientSids == {"A", "B"}

ClientStatements ==
    [Sid : ClientSids, Effect : {EffectAllow},
     Action : ClientActionLists, Resource : ClientResourceLists]

InitPolicy ==
    /\ mappings = NewMappingDatabase.mappings
    /\ loaded = NewMappingDatabase.loaded
    /\ cache = EmptyMap
    /\ ret = Idle
    /\ resolved = EmptyMap
    /\ procs = NoProcs
    /\ dbmu = Unlocked
    /\ policyBuilder = NewPolicyBuilder(DefaultOptions)
    /\ built = NilPolicy

\* p.AddStatement(statement) on the builder's policy.
PolicyAddStatement ==
    /\ ret.op = "idle"
    /\ Len(policyBuilder.policy.Statement) < MaxStatements
    /\ \E st \in ClientStatements :
          /\ policyBuilder' = [policyBuilder EXCEPT !.policy = AddStatement(@, st)]
          /\ ret' = [op |-> "AddStatement", actions |-> st.Action,
                     resources |-> st.Resource]
    /\ UNCHANGED <<mappings, loaded, cache, resolved, procs, dbmu, built>>

\* pb.AddActionStatement(sid, actions, resources)
BuilderAddActionStatement ==
    /\ ret.op = "idle"
    /\ Len(policyBuilder.policy.Statement) < MaxStatements
    /\ \E sid \in ClientSids, actions \in ClientActionLists,
          resources \in ClientResourceLists :
          /\ policyBuilder' = AddActionStatement(policyBuilder, sid, actions, resources)
          /\ ret' = [op |-> "AddActionStatement", actions |-> actions,
                     resources |-> resources]
    /\ UNCHANGED <<mappings, loaded, cache, resolved, procs, dbmu, built>>

\* p.ToJSON(); `before` is the policy as the call found it.
PolicyToJSON ==
    /\ ret.op = "idle"
    /\ LET r == ToJSON(policyBuilder.policy)
       IN  /\ policyBuilder' = [policyBuilder EXCEPT !.policy = r.policy]
           /\ ret' = [op |-> "ToJSON", before |-> policyBuilder.policy, json |-> r.json]
    /\ UNCHANGED <<mappings, loaded, cache, resolved, procs, dbmu, built>>

\* p.ToCompactJSON()
PolicyToCompactJSON ==
    /\ ret.op = "idle"
    /\ ret' = [op |-> "ToCompactJSON", before |-> policyBuilder.policy,
               json |-> ToCompactJSON(policyBuilder.policy)]
    /\ UNCHANGED <<mappings, loaded, cache, resolved, procs, dbmu, policyBuilder, built>>

\* g.ValidatePolicy(p) by a generator with options g.
PolicyValidate ==
    /\ ret.op = "idle"
    /\ \E g \in Generators :
          ret' = [op |-> "ValidatePolicy", g |-> g, policy |-> policyBuilder.policy,
                  result |-> ValidatePolicy(g, policyBuilder.policy)]
    /\ UNCHANGED <<mappings, loaded, cache, resolved, procs, dbmu, policyBuilder, built>>

NextPolicy ==
    \/ PolicyAddStatement
    \/ BuilderAddActionStatement
    \/ PolicyToJSON
    \/ PolicyToCompactJSON
    \/ PolicyValidate
    \/ Return

SpecPolicy == InitPolicy /\ [][NextPolicy]_vars


(***************************************************************************)
(* SpecBuilder: a client of one PolicyBuilder. It adds statements with     *)
(* AddActionStatement, sets the metadata and calls Build, in any order and *)
(* any number of times. Build returns the builder's *Policy, the pointer   *)
(* pb.policy itself, and a copy of pb.metadata: the Policy the client was  *)
(* given is the object policyBuilder.policy, and built keeps what it held  *)
(* and the metadata at the moment Build returned.                          *)
(***************************************************************************)
\* pb.SetMetadata(metadata)
SetMetadata ==
    /\ ret.op = "idle"
    /\ \E checksum \in {MD5Hex("a"), MD5Hex("b")} :
          LET metadata == [ResourceCount |-> 1, ActionCount |-> 1,
                           Services |-> <<"s3">>, Checksum |-> checksum]
          IN  /\ policyBuilder' = [policyBuilder EXCEPT !.metadata = metadata]
              /\ ret' = [op |-> "SetMetadata", metadata |-> metadata]
    /\ UNCHANGED <<mappings, loaded, cache, resolved, procs, dbmu, built>>

\* pb.Build()
Build ==
    /\ ret.op = "idle"
    /\ built' = [policy |-> policyBuilder.policy, metadata |-> policyBuilder.metadata]
    /\ ret' = [op |-> "Build", policy |-> policyBuilder.policy,
               metadata |-> policyBuilder.metadata]
    /\ UNCHANGED <<mappings, loaded, cache, resolved, procs, dbmu, policyBuilder>>

NextBuilder ==
    \/ BuilderAddActionStatement
    \/ SetMetadata
    \/ Build
    \/ Return

SpecBuilder == InitPolicy /\ [][NextBuilder]_vars


(***************************************************************************)
(* SpecStore: one client of a knowledge base that is loaded from several   *)
(* directories, some with more than one file, and of the lookup service    *)
(* over it. LoadMappings, Clear, ClearCache and GetResourceActions are     *)
(* called in any order; the client also reads the database and writes to   *)
(* the map GetAllMappings gave it.                                         *)
(***************************************************************************)
\* A second definition of fn: another service, one base action list and no
\* attribute_actions.
FileOverride ==
    [readable |-> TRUE, decodes |-> TRUE,
     data |->
        ("fn" :> YMap([service |-> YStr("lambda"),
                       actions |-> YMap([read |-> YActions(<<"s3:List">>)])]))]

\* Records that are not of the expected shape: q has a number among the
\* items of an action list and a string where the attribute_actions map
\* should be, r is a string instead of a mapping.
FileLenient ==
    [readable |-> TRUE, decodes |-> TRUE,
     data |->
        ("q" :> YMap([service |-> YStr("sqs"),
                      actions |-> YMap([create |-> YList(<<YStr("sqs:Send"), YInt>>)]),
                      attribute_actions |-> YStr("sqs:Get")]))
        @@ ("r" :> YStr("rds"))]

\* The directories the client loads: files are read in the order Glob lists
\* them.
StoreDirs ==
    [main |-> [exists |-> TRUE, files |-> <<FileMain>>],
     override |-> [exists |-> TRUE, files |-> <<FileOverride>>],
     layered |-> [exists |-> TRUE, files |-> <<FileMain, FileOverride>>],
     partial |-> [exists |-> TRUE, files |-> <<FileOverride, FileBad>>],
     lenient |-> [exists |-> TRUE, files |-> <<FileLenient>>],
     missing |-> [exists |-> FALSE, files |-> <<>>]]

StoreLoad ==
    /\ ret.op = "idle"
    /\ \E d \in DOMAIN StoreDirs : \E orders \in FileOrders(StoreDirs[d]) :
          LET r == LoadMappings([mappings |-> mappings, loaded |-> loaded],
                                StoreDirs[d], orders)
          IN  /\ mappings' = r.mappings
              /\ loaded' = r.loaded
              /\ ret' = [op |-> "LoadMappings", dir |-> d, err |-> r.err,
                         pre |-> [mappings |-> mappings, loaded |-> loaded]]
    /\ UNCHANGED <<cache, resolved, procs, dbmu, policyBuilder, built>>

\* GetMapping, HasMapping, GetAllMappings or IsLoaded, called by the client.
StoreRead ==
    /\ ret.op = "idle"
    /\ \E read \in DatabaseReads :
          ret' = [op |-> "Read", read |-> read,
                  result |-> ReadResult(read, [mappings |-> mappings, loaded |-> loaded])]
    /\ UNCHANGED <<mappings, loaded, cache, resolved, procs, dbmu, policyBuilder, built>>

\* The client writes to the map GetAllMappings has just returned. The map is
\* the client's own, so deleting or inserting a key changes that map alone;
\* its values are the *ResourceActionMap pointers the database holds
\* (result[k] = v), so an action added to a mapping's base or attribute
\* action set is added to the database's mapping. The client writes while
\* no mapping of the database lists the action it adds.
MutateAll ==
    /\ ret.op = "Read"
    /\ ret.read.name = "GetAllMappings"
    /\ \A k \in DOMAIN mappings :
          "iam:*" \notin ComputeActions(mappings[k], mappings[k].AttributeActions)
    /\ LET all == ret.result.all
           before == [mappings |-> mappings, loaded |-> loaded]
       IN  \/ \E k \in DOMAIN all :
                 /\ ret' = [op |-> "MutateAll", write |-> "delete", before |-> before,
                            all |-> [x \in (DOMAIN all) \ {k} |-> all[x]]]
                 /\ mappings' = mappings
           \/ /\ ret' = [op |-> "MutateAll", write |-> "insert", before |-> before,
                         all |-> MapSet(all, "new",
                                        [Service |-> "", Description |-> "",
                                         Actions |-> EmptyMap,
                                         AttributeActions |-> EmptyMap])]
              /\ mappings' = mappings
           \/ \E k \in DOMAIN all : \E label \in DOMAIN all[k].Actions :
                 LET written == [all[k] EXCEPT !.Actions[label] = @ \cup {"iam:*"}]
                 IN  /\ ret' = [op |-> "MutateAll", write |-> "actions", before |-> before,
                                all |-> [all EXCEPT ![k] = written]]
                     /\ mappings' = [mappings EXCEPT ![k] = written]
           \/ \E k \in DOMAIN all : \E a \in DOMAIN all[k].AttributeActions :
                 LET written == [all[k] EXCEPT
                                    !.AttributeActions[a]["_default"] = @ \cup {"iam:*"}]
                 IN  /\ ret' = [op |-> "MutateAll", write |-> "attribute_actions",
                                before |-> before,
                                all |-> [all EXCEPT ![k] = written]]
                     /\ mappings' = [mappings EXCEPT ![k] = written]
    /\ UNCHANGED <<loaded, cache, resolved, procs, dbmu, policyBuilder, built>>

NextStore ==
    \/ StoreLoad
    \/ Clear
    \/ ClearCache
    \/ Resolve
    \/ StoreRead
    \/ MutateAll
    \/ Return

SpecStore == Init /\ [][NextStore]_vars


(***************************************************************************)
(* Properties.                                                             *)
(***************************************************************************)
\* The call the client last made was a GeneratePolicy that returned a policy.
Generated == ret.op = "GeneratePolicy" /\ ~ret.result.err

\* The resources of a list whose type the database maps.
MappedResources(resources) ==
    {resources[i] : i \in {j \in DOMAIN resources : resources[j].Type \in DOMAIN mappings}}

\* seq is strictly ascending: sorted, no string twice.
StrictlyAscending(seq) ==
    \A i \in DOMAIN seq : \A j \in DOMAIN seq : i < j => StrLess(seq[i], seq[j])

\* What the specification's Resolve yields on the database as it stands: the
\* mapping's base action sets and the sets of the attributes present.
SpecResolve(resourceType, attributes) ==
    LET mp == mappings[resourceType]
    IN  UNION {mp.Actions[l] : l \in DOMAIN mp.Actions}
        \cup UNION {mp.AttributeActions[a][k] :
                        <<a, k>> \in {<<b, n>> \in (DOMAIN mp.AttributeActions) \X {"_default"} :
                                        b \in DOMAIN attributes}}

\* Every action listed by a statement of the policy.
StatementActions(policy) ==
    UNION {Range(policy.Statement[i].Action) : i \in DOMAIN policy.Statement}

\* C1: the global action set GeneratePolicy accumulates is the union, over
\* the mapped resources of its input, of Resolve(type, declared attributes);
\* those actions are in the statements and counted by ActionCount.
C1_GlobalSetIsUnionOfResolved ==
    Generated =>
        LET expected == UNION {SpecResolve(r.Type, r.Attributes) :
                                  r \in MappedResources(ret.input.Resources)}
        IN  /\ ret.result.allActions = expected
            /\ expected \subseteq StatementActions(ret.result.policy)
            /\ ret.result.metadata.ActionCount = Cardinality(expected)

\* The service of statement st: the prefix its actions share.
StatementService(st) == SplitFirst(st.Action[1])

\* C2: with GroupBy "service" the policy has one statement per service of
\* the global action set, in ascending order of service; each lists exactly
\* the global actions of its service, sorted and without duplicates, on
\* resource "*", under an id computed from the service alone.
C2_OneStatementPerService ==
    (Generated /\ ret.g.GroupBy = "service") =>
        LET global == ret.result.allActions
            stmts == ret.result.policy.Statement
        IN  /\ Len(stmts) = Cardinality({SplitFirst(a) : a \in global})
            /\ \A i \in DOMAIN stmts :
                  /\ Len(stmts[i].Action) > 0
                  /\ Range(stmts[i].Action) =
                        {a \in global : SplitFirst(a) = StatementService(stmts[i])}
                  /\ StrictlyAscending(stmts[i].Action)
                  /\ stmts[i].Resource = <<"*">>
                  /\ stmts[i].Sid = Title(StatementService(stmts[i])) \o "Permissions"
            /\ \A i \in DOMAIN stmts : \A j \in DOMAIN stmts :
                  i < j => StrLess(StatementService(stmts[i]), StatementService(stmts[j]))
            /\ StatementActions(ret.result.policy) = global

\* Reached: a grouped policy of several statements, one with several actions.
C2_Witness ==
    /\ Generated
    /\ ret.g.GroupBy = "service"
    /\ Len(ret.result.policy.Statement) >= 2
    /\ \E i \in DOMAIN ret.result.policy.Statement :
          Len(ret.result.policy.Statement[i].Action) >= 2

\* C3: with any GroupBy other than "service", a resource list with a mapped
\* resource yields exactly one statement, whose Action is the sorted,
\* duplicate-free union, over the mapped resources, of the action set of
\* the resource's type and declared attributes, and whose Resource is ["*"].
C3_FlatSingleStatement ==
    (/\ Generated
     /\ ret.g.GroupBy # "service"
     /\ MappedResources(ret.input.Resources) # {}) =>
        LET stmts == ret.result.policy.Statement
        IN  /\ Len(stmts) = 1
            /\ Range(stmts[1].Action) =
                  UNION {SpecResolve(r.Type, r.Attributes) :
                            r \in MappedResources(ret.input.Resources)}
            /\ StrictlyAscending(stmts[1].Action)
            /\ stmts[1].Resource = <<"*">>


\* The policy text and checksum GeneratePolicy yields for generator g and
\* parse result pr on the database as it stands when the cache is empty.
FreshGenerate(g, pr) ==
    LET global == collectActions(mappings, EmptyMap, pr.Resources, {}).allActions
        r == GeneratePolicy(mappings, EmptyMap, g, pr, CHOOSE o \in Orderings(global) : TRUE)
    IN  [json |-> ToCompactJSON(r.policy), checksum |-> r.metadata.Checksum]

\* C4: on one database, resource list and options, GeneratePolicy returns
\* the same compact JSON and the same checksum whatever the iteration order
\* and whatever the cache holds: the same as a call made on an empty cache.
C4_GenerateDeterministic ==
    Generated =>
        /\ ToCompactJSON(ret.result.policy) = FreshGenerate(ret.g, ret.input).json
        /\ ret.result.metadata.Checksum = FreshGenerate(ret.g, ret.input).checksum

\* The distinct resource types of a parse result.
InputTypes(pr) == {pr.Resources[i].Type : i \in DOMAIN pr.Resources}

\* C5: AnalyzePolicyGaps returns exactly the distinct resource types of the
\* input that the database does not map, each once, in ascending order.
C5_GapsAreUnmappedTypes ==
    (ret.op = "AnalyzePolicyGaps" /\ ~ret.result.err) =>
        /\ Range(ret.result.unmapped) = InputTypes(ret.input) \ DOMAIN mappings
        /\ StrictlyAscending(ret.result.unmapped)

\* C6: GetPolicyCoverage reports the number of distinct types, the number of
\* them the database maps, and 100 * mapped / total as the percentage (0 for
\* an input without types), and no error for a non-nil input.
C6_CoverageCountsMapped ==
    (ret.op = "GetPolicyCoverage" /\ ~IsNil(ret.input)) =>
        LET types == InputTypes(ret.input)
        IN  /\ ~ret.result.err
            /\ ret.result.total_resource_types = Cardinality(types)
            /\ ret.result.mapped_types = Cardinality(types \cap DOMAIN mappings)
            /\ IF types = {} THEN ret.result.coverage_percent = 0
               ELSE ret.result.coverage_percent * Cardinality(types)
                       = 100 * Cardinality(types \cap DOMAIN mappings)

\* call is a GeneratePolicy on a non-nil input none of whose resources is of
\* a mapped type.
NothingMapped(call) ==
    /\ call.op = "GeneratePolicy"
    /\ ~IsNil(call.input)
    /\ MappedResources(call.input.Resources) = {}

\* C7: in every grouping mode GeneratePolicy on a non-nil input without a
\* mapped resource returns no error and a policy without statements, and
\* ValidatePolicy on that policy returns a warning and no error.
C7_NothingMappedNoStatements ==
    /\ NothingMapped(ret) =>
          /\ ~ret.result.err
          /\ Len(ret.result.policy.Statement) = 0
    /\ (ret.op = "ValidatePolicy" /\ NothingMapped(ret.generated)) =>
          /\ Len(ret.policy.Statement) = 0
          /\ ~ret.result.err
          /\ Len(ret.result.warnings) >= 1

\* A parse result without its resources of unmapped types.
WithoutUnmapped(pr) ==
    [Resources |-> SelectSeq(pr.Resources, LAMBDA r : r.Type \in DOMAIN mappings)]

\* C8: a resource of an unmapped type fails no batch and adds nothing.
\* GeneratePolicy on a non-nil input returns no error and the statements it
\* returns for the input without its unmapped resources;
\* GetActionsForMultipleResources returns no error and one entry for each
\* mapped type of its input, the one GetResourceActions returns for the type
\* and its attributes.
C8_UnmappedSkipped ==
    /\ (ret.op = "GeneratePolicy" /\ ~IsNil(ret.input)) =>
          /\ ~ret.result.err
          /\ LET kept == WithoutUnmapped(ret.input)
                 global == collectActions(mappings, ret.pre, kept.Resources, {}).allActions
             IN  \A order \in Orderings(global) :
                    GeneratePolicy(mappings, ret.pre, ret.g, kept, order).policy.Statement
                       = ret.result.policy.Statement
    /\ ret.op = "GetActionsForMultipleResources" =>
          /\ ~ret.err
          /\ DOMAIN ret.out = (DOMAIN ret.resources) \cap (DOMAIN mappings)
          /\ \A t \in DOMAIN ret.out :
                LET one == GetResourceActions(mappings, cache, t, ret.resources[t])
                IN  /\ ~one.err
                    /\ ret.out[t].ResourceType = one.out.ResourceType
                    /\ ret.out[t].Service = one.out.Service
                    /\ ret.out[t].Actions = one.out.Actions

\* Reached: a batch lookup of a mapped and an unmapped type together.
C8_Witness ==
    /\ ret.op = "GetActionsForMultipleResources"
    /\ "x" \in DOMAIN ret.resources
    /\ "fn" \in DOMAIN ret.resources
    /\ DOMAIN ret.out = {"fn"}
    /\ "logs:Put" \in ret.out["fn"].Actions

\* C9: GetResourceActions fails exactly when the database has no mapping for
\* the type; otherwise the action set is the union of the mapping's base
\* sets and of the sets of the attribute names present, and nothing else.
C9_ResolveIsUnion ==
    ret.op = "GetResourceActions" =>
        /\ ret.err <=> ret.resourceType \notin DOMAIN mappings
        /\ ~ret.err => ret.out.Actions = SpecResolve(ret.resourceType, ret.attributes)

\* C10: on a fixed database, a GetResourceActions call whose type and set of
\* attribute names were resolved before returns the same action set as then,
\* from the cache, and leaves the cache with the entries it had.
C10_RepeatedResolveSameSet ==
    (/\ ret.op = "GetResourceActions"
     /\ ~ret.err
     /\ CallKey(ret) \in DOMAIN resolved) =>
        /\ ret.out.Actions = resolved[CallKey(ret)]
        /\ ret.out.Reason = "Retrieved from cache"
        /\ DOMAIN cache = DOMAIN ret.pre
        /\ cache = ret.pre

\* Reached: a second lookup of a type with an attribute present.
C10_Witness ==
    /\ ret.op = "GetResourceActions"
    /\ ~ret.err
    /\ ret.resourceType = "fn"
    /\ DOMAIN ret.attributes = {"log"}
    /\ CallKey(ret) \in DOMAIN resolved
    /\ "logs:Put" \in ret.out.Actions


\* C11: whatever the interleaving of GetResourceActions calls with one
\* another and with ClearCache on a fixed database, a call that returns a
\* result returns the whole action set of its type and attribute names, and
\* every cache entry is the whole action set of a type and attribute-name
\* set with that key.
C11_ConcurrentResolveCorrect ==
    /\ \A t \in DOMAIN procs :
          (procs[t].pc = "done" /\ ~procs[t].err) =>
              procs[t].out.Actions =
                  SpecResolve(procs[t].resourceType, procs[t].attributes)
    /\ \A k \in DOMAIN cache :
          \E rt \in DOMAIN mappings : \E attrs \in AttributesFor(rt) :
             /\ buildCacheKey(rt, attrs) = k
             /\ cache[k] = SpecResolve(rt, attrs)


\* C12: a read of the database made while a LoadMappings call is in progress
\* returns what it returns on the database as that call found it or on the
\* database as that call leaves it, never anything in between.
C12_ReadersSeeBeforeOrAfterLoad ==
    \A t \in Readers :
        (/\ procs[Loader].pc = "done"
         /\ procs[t].pc = "done"
         /\ procs[t].during = procs[Loader].n) =>
            \/ procs[t].result = ReadResult(procs[t].read, procs[Loader].before)
            \/ procs[t].result = ReadResult(procs[t].read,
                                            [mappings |-> mappings, loaded |-> loaded])

\* Reached: GetAllMappings ran while a LoadMappings call that went on to
\* store three records was in progress.
C12_Witness ==
    /\ procs[Loader].pc = "done"
    /\ ~procs[Loader].err
    /\ procs[Loader].before.mappings = EmptyMap
    /\ Cardinality(DOMAIN mappings) = 3
    /\ \E t \in Readers :
          /\ procs[t].pc = "done"
          /\ procs[t].during = procs[Loader].n
          /\ procs[t].read.name = "GetAllMappings"


\* The call the client last made was a GeneratePolicyWithResources that
\* returned a policy.
GeneratedWithResources == ret.op = "GeneratePolicyWithResources" /\ ~ret.result.err

\* C13: GeneratePolicyWithResources returns one statement for each mapped
\* resource type of its input and no other; the statement of a type lists
\* the action set resolved for the type, sorted and without duplicates, on
\* the ARN given for the type or on "*" when none is given, under an id
\* computed from the type alone.
C13_OneStatementPerResourceType ==
    GeneratedWithResources =>
        LET stmts == ret.result.policy.Statement
            types == MappedTypes(ret.input)
        IN  /\ Len(stmts) = Cardinality(types)
            /\ \A rt \in types :
                  \E i \in DOMAIN stmts :
                     /\ stmts[i].Sid = ReplaceAll(Title(rt), "_", "") \o "Access"
                     /\ \A j \in DOMAIN stmts : stmts[j].Sid = stmts[i].Sid => j = i
                     /\ Range(stmts[i].Action) =
                           GetResourceActions(mappings, cache, rt, EmptyMap).out.Actions
                     /\ StrictlyAscending(stmts[i].Action)
                     /\ stmts[i].Resource =
                           IF rt \in DOMAIN ret.resourceARNs
                           THEN <<ret.resourceARNs[rt]>> ELSE <<"*">>

\* Reached: a policy of two resource types, one with an ARN of its own.
C13_Witness ==
    /\ GeneratedWithResources
    /\ MappedTypes(ret.input) = {"fn", "vm"}
    /\ "fn" \in DOMAIN ret.resourceARNs
    /\ Len(ret.result.policy.Statement) = 2

\* C14: the statements GeneratePolicyWithResources returns are in ascending
\* order of resource type, whatever order the generator's maps are ranged
\* over, so the policy text and the checksum are those of the call that
\* ranges over the types in ascending order.
C14_ResourceStatementsInTypeOrder ==
    GeneratedWithResources =>
        LET sorted == SortedKeys(MappedTypes(ret.input))
            ordered == GeneratePolicyWithResources(mappings, ret.pre, ret.g, ret.input,
                                                   ret.resourceARNs, sorted)
        IN  /\ \A i \in DOMAIN ret.result.policy.Statement :
                  ret.result.policy.Statement[i].Sid = ResourceSid(sorted[i])
            /\ ToCompactJSON(ret.result.policy) = ToCompactJSON(ordered.policy)
            /\ ret.result.metadata.Checksum = ordered.metadata.Checksum


\* C15: the metadata GeneratePolicy returns counts every resource of the
\* input, mapped or not; its ActionCount is the size of the accumulated
\* action set and the number of distinct actions in the statements; its
\* Services are the service prefixes of the statements' actions, sorted and
\* each once; its Checksum is the digest of the compact JSON of the policy
\* returned.
C15_MetadataDescribesPolicy ==
    Generated =>
        LET md == ret.result.metadata
            inStatements == StatementActions(ret.result.policy)
        IN  /\ md.ResourceCount = Len(ret.input.Resources)
            /\ md.ActionCount = Cardinality(ret.result.allActions)
            /\ md.ActionCount = Cardinality(inStatements)
            /\ Range(md.Services) = {SplitFirst(a) : a \in inStatements}
            /\ StrictlyAscending(md.Services)
            /\ md.Checksum = MD5Hex(ToCompactJSON(ret.result.policy))

\* Reached: a one-statement policy over several services from a list with an
\* unmapped resource.
C15_Witness ==
    /\ Generated
    /\ ret.g.GroupBy = "flat"
    /\ Len(ret.result.metadata.Services) >= 2
    /\ ret.result.metadata.ResourceCount = 2
    /\ \E i \in DOMAIN ret.input.Resources : ret.input.Resources[i].Type = "x"


\* C16: ToJSON and ToCompactJSON leave the policy as they found it, the
\* order of its statements included, so the compact JSON of the policy (and
\* with it the digest of that text) is the same after a ToJSON call as
\* before it.
C16_SerializationLeavesPolicy ==
    ret.op \in {"ToJSON", "ToCompactJSON"} =>
        /\ policyBuilder.policy = ret.before
        /\ ToCompactJSON(policyBuilder.policy) = ToCompactJSON(ret.before)
        /\ MD5Hex(ToCompactJSON(policyBuilder.policy)) = calculateChecksum(ret.before)

\* C17: whatever lists AddStatement and AddActionStatement were given, every
\* statement of the policy has Action and Resource lists that are sorted and
\* without duplicates, and the statement just added holds exactly the
\* strings supplied for it.
C17_StatementListsSortedUnique ==
    LET stmts == policyBuilder.policy.Statement
    IN  /\ \A i \in DOMAIN stmts :
              /\ StrictlyAscending(stmts[i].Action)
              /\ StrictlyAscending(stmts[i].Resource)
        /\ ret.op \in {"AddStatement", "AddActionStatement"} =>
              /\ Range(stmts[Len(stmts)].Action) = Range(ret.actions)
              /\ Range(stmts[Len(stmts)].Resource) = Range(ret.resources)

\* The statement (counted from 1) a per-statement warning is about.
WarningStatement(warning) == IndexOf(DigitChars, CharAt(warning, 11))

\* C18: ValidatePolicy on a policy returns no error, leaves the policy as it
\* is, and returns exactly: one policy-level warning iff the policy has no
\* statement; for statement i a no-actions warning iff its Action is empty,
\* a no-resources warning iff its Resource is empty, a wildcard-actions
\* warning iff its Action is ["*"], a wildcard-resources warning iff its
\* Resource is ["*"] and the options do not ask for wildcard resources; each
\* once, the statements' warnings in the order of the statements.
C18_ValidateWarnsExactly ==
    (ret.op = "ValidatePolicy" /\ ~IsNil(ret.policy)) =>
        LET w == ret.result.warnings
            stmts == ret.policy.Statement
            About(I, text) == {"Statement " \o CharAt(DigitChars, i) \o text : i \in I}
            expected ==
                (IF Len(stmts) = 0 THEN {"Policy contains no statements"} ELSE {})
                \cup About({i \in DOMAIN stmts : Len(stmts[i].Action) = 0},
                           " has no actions")
                \cup About({i \in DOMAIN stmts : Len(stmts[i].Resource) = 0},
                           " has no resources")
                \cup About({i \in DOMAIN stmts : stmts[i].Action = <<"*">>},
                           " has wildcard actions")
                \cup About({i \in DOMAIN stmts : /\ stmts[i].Resource = <<"*">>
                                                 /\ ~ret.g.UseWildcardResources},
                           " has wildcard resources")
        IN  /\ ~ret.result.err
            /\ policyBuilder.policy = ret.policy
            /\ Range(w) = expected
            /\ Len(w) = Cardinality(expected)
            /\ Len(stmts) > 0 =>
                  \A a \in DOMAIN w : \A b \in DOMAIN w :
                     a < b => WarningStatement(w[a]) <= WarningStatement(w[b])

\* Reached: a validation in wildcard-resource mode of a policy with a
\* wildcard statement and a statement without actions and resources.
C18_Witness ==
    /\ ret.op = "ValidatePolicy"
    /\ ret.g.UseWildcardResources
    /\ Len(ret.policy.Statement) = 2
    /\ ret.policy.Statement[1].Action = <<"*">>
    /\ ret.policy.Statement[1].Resource = <<"*">>
    /\ ret.policy.Statement[2].Action = <<>>
    /\ ret.policy.Statement[2].Resource = <<>>
    /\ Len(ret.result.warnings) = 3


\* The call the client last made had nil where its parse result or policy
\* is expected.
NilCall ==
    \/ /\ ret.op \in {"GeneratePolicy", "GeneratePolicyWithResources",
                      "AnalyzePolicyGaps", "GetPolicyCoverage"}
       /\ IsNil(ret.input)
    \/ /\ ret.op = "ValidatePolicy"
       /\ IsNil(ret.policy)

\* The call the client last made returned an error and nothing with it.
ErrorAndNothingElse ==
    /\ ret.result.err
    /\ ret.op \in {"GeneratePolicy", "GeneratePolicyWithResources"} =>
          /\ IsNil(ret.result.policy)
          /\ "metadata" \notin DOMAIN ret.result
    /\ ret.op = "AnalyzePolicyGaps" => "unmapped" \notin DOMAIN ret.result
    /\ ret.op = "GetPolicyCoverage" => DOMAIN ret.result = {"err"}
    /\ ret.op = "ValidatePolicy" => ret.result.warnings = <<>>

\* C19: GeneratePolicy, GeneratePolicyWithResources, AnalyzePolicyGaps and
\* GetPolicyCoverage on a nil parse result and ValidatePolicy on a nil policy
\* return an error and nothing else, and the step that makes the call leaves
\* the cache and the database as they were.
C19_NilGuards ==
    [][NilCall' => (ErrorAndNothingElse' /\ UNCHANGED <<mappings, loaded, cache>>)]_vars

\* Reached: ValidatePolicy on the nil policy that GeneratePolicy(nil)
\* returned, with entries in the cache.
C19_Witness ==
    /\ ret.op = "ValidatePolicy"
    /\ IsNil(ret.policy)
    /\ IsNil(ret.generated.input)
    /\ cache # EmptyMap


\* C20: GetActionsByService puts every action that contains ':' into the
\* group named by the text before its first ':' and into no other, and an
\* action without ':' into no group; no group exists but for the services of
\* the actions that contain ':'.
C20_GroupsByServicePrefix ==
    ret.op = "GetActionsByService" =>
        LET separated == {a \in ret.allActions : IndexOf(a, ":") > 0}
        IN  /\ \A a \in separated :
                  {k \in DOMAIN ret.out : a \in ret.out[k]}
                     = {SubSeq(a, 1, IndexOf(a, ":") - 1)}
            /\ \A a \in ret.allActions \ separated :
                  \A k \in DOMAIN ret.out : a \notin ret.out[k]
            /\ DOMAIN ret.out = {SubSeq(a, 1, IndexOf(a, ":") - 1) : a \in separated}

\* C21: CombineActions is a pure set union. The set returned holds exactly
\* the actions of its arguments; for two arguments A and B its size is
\* |A| + |B| - |A intersect B|, it is the set CombineActions(B, A) returns,
\* and CombineActions(A, A) is A; the arguments the client handed over and
\* the lookup cache are what they were before the call.
C21_CombineIsSetUnion ==
    ret.op = "CombineActions" =>
        LET ras == ret.resourceActions
        IN  /\ \A a \in ret.out : \E i \in DOMAIN ras : a \in ras[i].Actions
            /\ \A i \in DOMAIN ras : ras[i].Actions \subseteq ret.out
            /\ Len(ras) = 2 =>
                  /\ Cardinality(ret.out) =
                        Cardinality(ras[1].Actions) + Cardinality(ras[2].Actions)
                        - Cardinality(ras[1].Actions \cap ras[2].Actions)
                  /\ ret.out = CombineActions(<<ras[2], ras[1]>>)
                  /\ ras[1] = ras[2] => ret.out = ras[1].Actions
            /\ \A i \in DOMAIN ras : ras[i] \in CombinableResults
            /\ cache = ret.pre

\* Two results that share an action were combined while the cache held entries.
C21_Witness ==
    /\ ret.op = "CombineActions"
    /\ Len(ret.resourceActions) = 2
    /\ ret.resourceActions[1] # ret.resourceActions[2]
    /\ ret.resourceActions[1].Actions \cap ret.resourceActions[2].Actions # {}
    /\ Cardinality(ret.out) = 3
    /\ cache # EmptyMap

\* File `file` holds a mapping record for resource type t.
Defines(file, t) == t \in DOMAIN file.data /\ file.data[t].kind = "map"

\* The resource types the files of directory dir hold records for.
DefinedTypes(dir) ==
    UNION {{t \in DOMAIN dir.files[i].data : Defines(dir.files[i], t)} :
              i \in DOMAIN dir.files}

\* The last file of dir, in loading order, that defines t.
LastSource(dir, t) ==
    dir.files[CHOOSE i \in DOMAIN dir.files :
                /\ Defines(dir.files[i], t)
                /\ \A j \in DOMAIN dir.files : Defines(dir.files[j], t) => j <= i]

\* C22: last-wins loading. After a LoadMappings that succeeded, GetMapping of
\* a type that files of the directory define returns the record of the last
\* of these files as a whole (service, base action sets and attribute action
\* sets are that record's and nothing of an earlier definition is left), and
\* every other type has the mapping it had before the call, or none if it
\* had none.
C22_LastLoadedDefinitionWins ==
    (ret.op = "LoadMappings" /\ ~ret.err) =>
        LET dir == StoreDirs[ret.dir]
        IN  /\ DOMAIN mappings = DOMAIN ret.pre.mappings \cup DefinedTypes(dir)
            /\ \A t \in DefinedTypes(dir) :
                  GetMapping(mappings, t).mapping =
                      parseMappingData(LastSource(dir, t).data[t].fields).mapping
            /\ \A t \in (DOMAIN ret.pre.mappings) \ DefinedTypes(dir) :
                  GetMapping(mappings, t) = GetMapping(ret.pre.mappings, t)

\* fn, loaded with attribute actions by an earlier Load, was loaded again from
\* a file that gives it one base action list; vm is still there.
C22_Witness ==
    /\ ret.op = "LoadMappings"
    /\ ~ret.err
    /\ ret.dir = "override"
    /\ "fn" \in DOMAIN ret.pre.mappings
    /\ "log" \in DOMAIN ret.pre.mappings["fn"].AttributeActions
    /\ GetMapping(mappings, "fn").mapping.Actions = [read |-> {"s3:List"}]
    /\ GetMapping(mappings, "fn").mapping.AttributeActions = EmptyMap
    /\ HasMapping(mappings, "vm")

\* A decoded action list that is not a string or a list of strings.
MalformedActionList(v) ==
    \/ v.kind \notin {"list", "str"}
    \/ v.kind = "list" /\ \E i \in DOMAIN v.items : v.items[i].kind # "str"

\* A field that should be a map of action lists and is not.
MalformedActionsField(fields, name) ==
    name \in DOMAIN fields /\
        \/ fields[name].kind # "map"
        \/ \E n \in DOMAIN fields[name].fields :
              MalformedActionList(fields[name].fields[n])

\* A record of a mapping file that is not a well-formed mapping.
MalformedRecord(rec) ==
    \/ rec.kind # "map"
    \/ rec.kind = "map" /\ (\/ MalformedActionsField(rec.fields, "actions")
                            \/ MalformedActionsField(rec.fields, "attribute_actions"))

\* C23: fail-fast loading. LoadMappings returns an error when the directory
\* does not exist and when a record of one of its files is malformed: an
\* entry that is not a mapping, an actions or attribute_actions field that is
\* not a map of action lists, an action list with an item that is not a
\* string.
C23_MalformedRecordFailsLoad ==
    ret.op = "LoadMappings" =>
        LET dir == StoreDirs[ret.dir]
        IN  (\/ ~dir.exists
             \/ \E i \in DOMAIN dir.files : \E t \in DOMAIN dir.files[i].data :
                   MalformedRecord(dir.files[i].data[t]))
            => ret.err

\* C24: GetAllMappings returns a defensive copy. Whatever the caller writes
\* to the map it was given (a key deleted, a key inserted, an action added
\* to a base or attribute action set of a mapping in it), GetMapping,
\* HasMapping, GetAllMappings, IsLoaded and GetResourceActions return
\* afterwards what they would have returned without the write.
C24_AllIsDefensiveCopy ==
    ret.op = "MutateAll" =>
        /\ \A read \in DatabaseReads :
              ReadResult(read, [mappings |-> mappings, loaded |-> loaded])
                  = ReadResult(read, ret.before)
        /\ \A rt \in ResourceTypes : \A attrs \in AttributesFor(rt) :
              LET now == GetResourceActions(mappings, cache, rt, attrs)
                  untouched == GetResourceActions(ret.before.mappings, cache, rt, attrs)
              IN  /\ now.err = untouched.err
                  /\ ~now.err => now.out.Actions = untouched.out.Actions

\* C28: a LoadMappings that returns an error leaves the database as it was:
\* GetMapping, HasMapping, GetAllMappings and IsLoaded return what they
\* returned before the call.
C28_FailedLoadChangesNothing ==
    (ret.op = "LoadMappings" /\ ret.err) =>
        \A read \in DatabaseReads \cup [name : {"GetMapping", "HasMapping"},
                                        resourceType : DefinedTypes(StoreDirs[ret.dir])] :
            ReadResult(read, [mappings |-> mappings, loaded |-> loaded])
                = ReadResult(read, ret.pre)

\* What a GetResourceActions(rt, attrs) call returns to its caller on database
\* m and cache c: whether it failed and, if not, the action set.
Resolution(m, c, rt, attrs) ==
    LET r == GetResourceActions(m, c, rt, attrs)
    IN  IF r.err THEN [err |-> TRUE] ELSE [err |-> FALSE, Actions |-> r.out.Actions]

\* C25: each reset empties its own store. ClearCache leaves the cache without
\* entries and the mappings and the loaded flag as they were, and a
\* GetResourceActions call made after it returns what the same call would
\* have returned before it; Clear leaves the database without mappings
\* (HasMapping false for every type, GetAllMappings empty) and IsLoaded false.
C25_ResetsEmptyTheirOwnStore ==
    [][/\ ret'.op = "ClearCache" =>
             /\ DOMAIN cache' = {}
             /\ mappings' = mappings /\ loaded' = loaded
             /\ \A rt \in ResourceTypes : \A attrs \in AttributesFor(rt) :
                   Resolution(mappings', cache', rt, attrs)
                       = Resolution(mappings, cache, rt, attrs)
       /\ ret'.op = "Clear" =>
             /\ \A rt \in ResourceTypes : ~HasMapping(mappings', rt)
             /\ GetAllMappings(mappings') = EmptyMap
             /\ ~IsLoaded(loaded')]_vars

\* No call for another resource type or another set of attribute names has
\* the cache key of the call (rt, attrs).
KeyOfItsOwn(rt, attrs) ==
    \A rt2 \in ResourceTypes : \A attrs2 \in AttributesFor(rt2) :
        buildCacheKey(rt2, attrs2) = buildCacheKey(rt, attrs)
            => (rt2 = rt /\ DOMAIN attrs2 = DOMAIN attrs)

\* C26: the cache is coherent with the knowledge base. Whatever LoadMappings,
\* Clear, ClearCache and GetResourceActions calls came before, a
\* GetResourceActions call that succeeds returns the union computed from
\* the mapping the database holds for the type when the call is made; stated
\* here for the calls whose cache key no other call shares.
C26_ResolveFollowsKnowledgeBase ==
    (/\ ret.op = "GetResourceActions"
     /\ ~ret.err
     /\ KeyOfItsOwn(ret.resourceType, ret.attributes)) =>
        ret.out.Actions =
            ComputeActions(GetMapping(mappings, ret.resourceType).mapping, ret.attributes)

\* C29: the cache key is injective on (resource type, set of attribute
\* names). No call for another type or another set of attribute names has
\* the cache key of the call the client made, and on a database that stays
\* as loaded the action set returned is the one of the call's own type and
\* attribute names.
C29_CacheKeyInjective ==
    ret.op = "GetResourceActions" =>
        /\ \A rt \in ResourceTypes : \A attrs \in AttributesFor(rt) :
              CallKey([resourceType |-> rt, attributes |-> attrs]) # CallKey(ret)
                  => buildCacheKey(rt, attrs)
                         # buildCacheKey(ret.resourceType, ret.attributes)
        /\ ~ret.err =>
              ret.out.Actions =
                  ComputeActions(LoadedMain.mappings[ret.resourceType], ret.attributes)

\* C27: whatever the interleaving of GetResourceActions with Clear and
\* LoadMappings of other goroutines, a call returns the error for an unmapped
\* type or a result built from a mapping it obtained: no goroutine goes on
\* with an absent mapping after its existence check, on the cache-hit path
\* or on the cache-miss path.
C27_NoMissingMappingDereferenced ==
    \A t \in DOMAIN procs : procs[t].pc # "panic"

\* C30: a built policy is sealed. Once Build has returned a Policy, the
\* AddActionStatement and SetMetadata calls made on the builder afterwards
\* leave the statements of that Policy as they were when it was returned,
\* and the metadata Build returned is the one set last before it.
C30_BuiltPolicySealed ==
    /\ ~IsNil(built) => policyBuilder.policy.Statement = built.policy.Statement
    /\ ret.op = "Build" => ret.metadata = policyBuilder.metadata
====
